---- MODULE Spec2Model ----
(***************************************************************************)
(* Model of the download orchestrator core.download.download_audio and of  *)
(* the log monitor app_logging.FragmentLogger it drives.                   *)
(*                                                                         *)
(* One run of download_audio is the state machine                          *)
(*   for_browser -> while_config -> for_url ... -> finish -> done          *)
(* The external engine (yt-dlp) is the environment: every engine call      *)
(* returns an outcome drawn from EngineOutcomes and emits at most one log  *)
(* line drawn from LogLines to the monitor.                                *)
(***************************************************************************)
EXTENDS Integers, Sequences, FiniteSets, TLC

\* ------------------------------------------------------------------ bounds
\* Longest input URL list.
MaxUrls == 2
\* Number of distinct URL strings.
NumUrls == 5
\* Highest value of each counter of the monitor in one run.
MaxEvents == 1

\* Most parameters in the query of a sample URL.
MaxParams == 2

Urls == 1..NumUrls

\* Every URL list of length 0..MaxUrls; the same string may occur more than
\* once.
UrlLists == UNION {[1..n -> Urls] : n \in 0..MaxUrls}

\* ------------------------------------------------- program constants
NoBrowser == "none"
\* Variant order of the sources, credentials first.
credentialed_first == <<"firefox", NoBrowser, "chrome">>
browser_strategies == <<NoBrowser, "firefox", "chrome">>
player_client_configs == << <<"tv", "web">>, <<"web">>, <<"ios">> >>
AnonymousClients == <<"default", "-web_safari">>

BrowserName(current_browser) ==
    IF current_browser = NoBrowser THEN "Anonymous (No Cookies)" ELSE current_browser

\* ------------------------------------------------- messages of the run
\* The FatalForbiddenError messages download_audio and the monitor raise.
ErrNoFormatsTryNext == "No Formats Available (Signature Solving Failed - Try Next Config)"
ErrNoFormatsSignature == "No Formats Available (Signature Solving Failed)"
ErrNoFormatsRestricted == "No Formats Available (Video Restricted)"
ErrForbidden == "403 Forbidden (IP Block)"
ErrFormatTryNext == "Format Unavailable (Signature Solving Failed - Try Next Config)"
ErrFormatSignature == "Format Unavailable (Signature Solving Failed)"
ErrFormatSoftBan == "Format Unavailable (Cookie Soft Ban)"
ErrCookieAccess == "Cookie Access Failed (Browser Open/Encrypted)"
ErrMonitorForbidden == "403 Forbidden"

\* "Signature Solving Failed" in err_str
HasSignatureSolvingFailed(err_str) ==
    err_str \in {ErrNoFormatsTryNext, ErrNoFormatsSignature,
                 ErrFormatTryNext, ErrFormatSignature}

\* "No Formats Available" in err_str
HasNoFormatsAvailable(err_str) ==
    err_str \in {ErrNoFormatsTryNext, ErrNoFormatsSignature, ErrNoFormatsRestricted}

\* ------------------------------------------------- FragmentLogger
\* A log message is the set of marker substrings it contains (lower-cased
\* where the monitor lower-cases): "signature" stands for "signature solving
\* failed" / "challenge solving failed", "images" for "only images are
\* available", "forbidden" for "403" / "Forbidden".
MsgSignature == {"signature"}
MsgImagesOnly == {"images"}
MsgFragmentSkipping == {"fragment", "skipping"}
MsgFragmentNotFound == {"fragment", "not found"}
MsgPlain == {}
MsgForbidden == {"forbidden"}

NoLine == <<"none", MsgPlain>>
\* The lines the engine emits while download_audio runs.
LogLines ==
    { <<"warning", MsgSignature>>, <<"warning", MsgImagesOnly>>,
      <<"warning", MsgFragmentSkipping>>, <<"warning", MsgPlain>>,
      <<"debug", MsgFragmentSkipping>>,
      <<"error", MsgForbidden>>, <<"error", MsgPlain>>,
      <<"error", MsgFragmentNotFound>>, <<"error", MsgFragmentSkipping>> }

NewFragmentLogger ==
    [ skipped |-> 0, errors |-> 0, warnings |-> 0,
      signature_solving_failed |-> FALSE, only_images_available |-> FALSE ]

LoggerDebug(fl, msg) ==
    IF "fragment" \in msg /\ "skipping" \in msg
    THEN [fl EXCEPT !.skipped = @ + 1]
    ELSE fl

LoggerWarning(fl, msg) ==
    LET f1 == IF "signature" \in msg
              THEN [fl EXCEPT !.signature_solving_failed = TRUE] ELSE fl
        f2 == IF "images" \in msg
              THEN [f1 EXCEPT !.only_images_available = TRUE] ELSE f1
    IN  IF "fragment" \in msg \/ "skipping" \in msg
        THEN [f2 EXCEPT !.skipped = @ + 1]
        ELSE [f2 EXCEPT !.warnings = @ + 1]

\* Variant error method that never raises.
ErrorNeverRaises(msg) == FALSE

\* FragmentLogger.error raises FatalForbiddenError on an access-denied message.
LoggerErrorRaises(msg) == "forbidden" \in msg

LoggerError(fl, msg) ==
    IF LoggerErrorRaises(msg) THEN fl
    ELSE LET f1 == [fl EXCEPT !.errors = @ + 1]
         IN  IF "fragment" \in msg /\ "not found" \in msg
             THEN [f1 EXCEPT !.skipped = @ + 1]
             ELSE f1

\* The monitor after the engine has handed it one line.
Feed(fl, line) ==
    CASE line[1] = "debug" -> LoggerDebug(fl, line[2])
      [] line[1] = "warning" -> LoggerWarning(fl, line[2])
      [] line[1] = "error" -> LoggerError(fl, line[2])
      [] OTHER -> fl

LineRaises(line) == line[1] = "error" /\ LoggerErrorRaises(line[2])

\* No counter of the monitor is above MaxEvents.
CountersBounded(fl) ==
    fl.skipped <= MaxEvents /\ fl.errors <= MaxEvents /\ fl.warnings <= MaxEvents

\* Variant resets: none at all, and one that also clears the counters.
KeepFlags(fl) == fl
ResetMonitor(fl) == NewFragmentLogger

\* The reset download_audio does at the start of an attempt.
ResetFlags(fl) ==
    [fl EXCEPT !.signature_solving_failed = FALSE, !.only_images_available = FALSE]

Degraded(fl) == fl.signature_solving_failed \/ fl.only_images_available

\* The line, fed to a monitor whose flags are down, raises one of them.
SignalsDegradation(line) == Degraded(Feed(ResetFlags(NewFragmentLogger), line))


\* ------------------------------------------------- output directory
\* A file name is its title stem, the number of layers of junk text
\* ("(Official Video)", "(Official (Official Video) Video)", ...) the stem
\* carries, and the positional suffix "_<i>" a colliding rename appends
\* (<<i>>; NoSuffix: none). EmptyStem is the empty string.
NoSuffix == <<>>
EmptyStem == 0
Plain(stem) == [stem |-> stem, junk |-> 0, sfx |-> NoSuffix]
Junk(stem) == [stem |-> stem, junk |-> 1, sfx |-> NoSuffix]
Nested(stem) == [stem |-> stem, junk |-> 2, sfx |-> NoSuffix]
Suffixed(name, i) == [name EXCEPT !.sfx = <<i>>]

\* The file the engine writes for a URL (prepare_filename): URL 1 has a
\* title with junk text, URL 2 the same title without it, URL 4 the same
\* title with junk text inside junk text, URL 5 a title that is junk text
\* and nothing else, every other URL a clean title of its own.
TitleOf(url) ==
    CASE url = 1 -> Junk(1)
      [] url = 2 -> Plain(1)
      [] url = 4 -> Nested(1)
      [] url = 5 -> Junk(EmptyStem)
      [] OTHER -> Plain(url)

\* The environments of a run: whether FFmpeg is installed, and what the
\* output directory holds before the run: nothing, a clean title, or the
\* suffixed name an earlier rename has left.
Environments ==
    { [ffmpeg |-> TRUE, before |-> {}],
      [ffmpeg |-> TRUE, before |-> {Plain(1)}],
      [ffmpeg |-> TRUE, before |-> {Suffixed(Plain(1), 0)}],
      [ffmpeg |-> FALSE, before |-> {Plain(1)}] }

\* core.metadata.sanitize_text on a file stem: every pattern is applied once,
\* which removes the junk text that stands in the stem as such; junk text
\* that only comes together by the removal stays.
sanitize_text(name) == [name EXCEPT !.junk = IF @ > 0 THEN @ - 1 ELSE 0]

\* The post-processing loop over downloaded_files, from item i on; posix
\* tells whether os.rename replaces an existing target (POSIX) or raises
\* OSError (Windows), which the loop catches.
RECURSIVE PostProcess(_, _, _, _)
PostProcess(fs, dl, i, posix) ==
    IF i >= Len(dl) THEN fs
    ELSE LET file_path == dl[i + 1]
             clean_stem == sanitize_text(file_path)
             new_path == IF clean_stem \in fs THEN Suffixed(clean_stem, i) ELSE clean_stem
         IN  IF file_path \notin fs THEN PostProcess(fs, dl, i + 1, posix)
             ELSE IF clean_stem = file_path THEN PostProcess(fs, dl, i + 1, posix)
             ELSE IF new_path \in fs /\ ~posix THEN PostProcess(fs, dl, i + 1, posix)
             ELSE PostProcess((fs \ {file_path}) \cup {new_path}, dl, i + 1, posix)

\* The paths the same loop hands to clean_tags, in order: one for every item
\* whose file exists when the loop reaches it, after the rename attempt.
RECURSIVE TaggedFiles(_, _, _, _)
TaggedFiles(fs, dl, i, posix) ==
    IF i >= Len(dl) THEN <<>>
    ELSE LET file_path == dl[i + 1]
             clean_stem == sanitize_text(file_path)
             new_path == IF clean_stem \in fs THEN Suffixed(clean_stem, i) ELSE clean_stem
         IN  IF file_path \notin fs THEN TaggedFiles(fs, dl, i + 1, posix)
             ELSE IF clean_stem = file_path
             THEN <<file_path>> \o TaggedFiles(fs, dl, i + 1, posix)
             ELSE IF new_path \in fs /\ ~posix
             THEN <<file_path>> \o TaggedFiles(fs, dl, i + 1, posix)
             ELSE <<new_path>>
                  \o TaggedFiles((fs \ {file_path}) \cup {new_path}, dl, i + 1, posix)

\* The files of the directory that the same loop replaces: os.rename onto an
\* existing path replaces the file there (POSIX).
RECURSIVE ReplacedFiles(_, _, _, _)
ReplacedFiles(fs, dl, i, posix) ==
    IF i >= Len(dl) THEN {}
    ELSE LET file_path == dl[i + 1]
             clean_stem == sanitize_text(file_path)
             new_path == IF clean_stem \in fs THEN Suffixed(clean_stem, i) ELSE clean_stem
         IN  IF file_path \notin fs THEN ReplacedFiles(fs, dl, i + 1, posix)
             ELSE IF clean_stem = file_path THEN ReplacedFiles(fs, dl, i + 1, posix)
             ELSE IF new_path \in fs /\ ~posix THEN ReplacedFiles(fs, dl, i + 1, posix)
             ELSE (IF new_path \in fs THEN {new_path} ELSE {})
                  \cup ReplacedFiles((fs \ {file_path}) \cup {new_path}, dl, i + 1, posix)

\* Variant run that never post-processes.
NeverPostProcesses(ffmpeg, dl) == FALSE

\* if has_ffmpeg and downloaded_files
RunsPostProcessing(ffmpeg, dl) == ffmpeg /\ dl # <<>>

\* ------------------------------------------------- list helpers
\* url in lst
Contains(lst, url) == \E j \in 1..Len(lst) : lst[j] = url

\* lst.remove(url): the first occurrence is removed.
RemoveFirst(lst, url) ==
    IF ~Contains(lst, url) THEN lst
    ELSE LET j == CHOOSE j \in 1..Len(lst) :
                      lst[j] = url /\ \A h \in 1..(j - 1) : lst[h] # url
         IN  SubSeq(lst, 1, j - 1) \o SubSeq(lst, j + 1, Len(lst))

\* for url in succeeded_in_this_pass: if url in remaining_urls: remaining_urls.remove(url)
RECURSIVE RemoveSucceeded(_, _)
RemoveSucceeded(remaining, succeeded) ==
    IF succeeded = <<>> THEN remaining
    ELSE RemoveSucceeded(RemoveFirst(remaining, Head(succeeded)), Tail(succeeded))

\* ------------------------------------------------- engine outcomes
\* The feasibility probe, extract_info(url, download=False): "proceeds" when
\* it finds a real format, finds no format at all, or fails (the failure is
\* only logged); "no_real_formats" when it finds formats but none with audio
\* or video.
ProbeOutcomes == {"proceeds", "no_real_formats"}
\* The transfer: extract_info(url, download=True).
TransferOutcomes ==
    {"ok", "dl_forbidden", "dl_format", "dl_cookie", "dl_other",
     "permission_error", "exception"}
EngineOutcomes ==
    {<<"no_real_formats", "none">>}
    \cup {<<"proceeds", t>> : t \in TransferOutcomes}

\* What one URL iteration of the for loop ends in: the URL succeeded, only
\* this URL is skipped, or FatalForbiddenError(err) leaves the loop.
Classify(outcome, line, fl, use_cookies, idx) ==
    LET more == use_cookies /\ idx < Len(player_client_configs) - 1
    IN  IF LineRaises(line) THEN [kind |-> "fatal", err |-> ErrMonitorForbidden]
        ELSE IF outcome[1] = "no_real_formats" THEN
            IF Degraded(fl)
            THEN IF more THEN [kind |-> "fatal", err |-> ErrNoFormatsTryNext]
                 ELSE [kind |-> "fatal", err |-> ErrNoFormatsSignature]
            ELSE [kind |-> "fatal", err |-> ErrNoFormatsRestricted]
        ELSE IF outcome[2] = "ok" THEN [kind |-> "success", err |-> ""]
        ELSE IF outcome[2] = "dl_forbidden" THEN [kind |-> "fatal", err |-> ErrForbidden]
        ELSE IF outcome[2] = "dl_format" THEN
            IF Degraded(fl)
            THEN IF more THEN [kind |-> "fatal", err |-> ErrFormatTryNext]
                 ELSE [kind |-> "fatal", err |-> ErrFormatSignature]
            ELSE [kind |-> "fatal", err |-> ErrFormatSoftBan]
        ELSE IF outcome[2] = "dl_cookie" THEN [kind |-> "fatal", err |-> ErrCookieAccess]
        ELSE [kind |-> "skip", err |-> ""]

\* Variants of the handler: one that tries the next client profile on every
\* fatal error, one that also does on every format error, one that never does.
AdvancesOnAnyError(err_str, use_cookies, idx) ==
    use_cookies /\ idx < Len(player_client_configs) - 1
AdvancesOnFormatError(err_str, use_cookies, idx) ==
    /\ \/ HasSignatureSolvingFailed(err_str) \/ HasNoFormatsAvailable(err_str)
       \/ err_str = ErrFormatSoftBan
    /\ use_cookies
    /\ idx < Len(player_client_configs) - 1
NeverAdvances(err_str, use_cookies, idx) == FALSE

\* except FatalForbiddenError of the client-profile loop: the next client
\* profile is tried instead of re-raising.
AdvancesProfile(err_str, use_cookies, idx) ==
    /\ HasSignatureSolvingFailed(err_str) \/ HasNoFormatsAvailable(err_str)
    /\ use_cookies
    /\ idx < Len(player_client_configs) - 1

\* Variant try block without the except FatalForbiddenError clause.
CatchesOnlyException(exc) == exc = "Exception"

\* The except clauses of the credential-source try block.
StrategyCatches(exc) == exc \in {"FatalForbiddenError", "Exception"}

\* if not remaining_urls: break / if success: break
StopsBeforeSource(remaining, ok) == remaining = <<>> \/ ok

\* Variant while condition that admits the first client profile only.
WhileFirstProfileOnly(use_cookies, idx) ==
    IF use_cookies THEN idx < Len(player_client_configs) - 2 ELSE TRUE

\* while player_client_idx < len(player_client_configs) if use_cookies else 1
WhileHolds(use_cookies, idx) ==
    IF use_cookies THEN idx < Len(player_client_configs) ELSE TRUE

\* Variant ends of a pass: success is set whatever the pass did, or never.
PassAlwaysSucceeds(succeeded) == TRUE
PassNeverSucceeds(succeeded) == FALSE

\* if succeeded_in_this_pass: success = True; break
PassSucceeded(succeeded) == succeeded # <<>>

\* Variant for loop that stays on its entry.
SameUrlIndex(i) == i

\* Variant for loop that passes over the entry after the current one.
SkipsTwo(i) == i + 2

\* The for loop over remaining_urls moves to the next list entry.
NextUrlIndex(i) == i + 1

\* The statistics download_audio returns.
MakeStats(before, after, fl) ==
    [ new_files |-> Cardinality(after \ before),
      skipped_fragments |-> fl.skipped,
      warnings |-> fl.warnings ]
NoStats == [new_files |-> -1, skipped_fragments |-> -1, warnings |-> -1]

\* ------------------------------------------------------------------ state
VARIABLES
    entry_point,            \* "core": core.download.download_audio, "cli": music_download's
    urls,                   \* the input URL list
    has_ffmpeg,             \* is_ffmpeg_installed()
    files_before,           \* the output directory before the run
    files,                  \* the output directory now
    pc,                     \* position of the run
    browser_i,              \* credential sources entered so far (for loop)
    player_client_idx,
    url_i,                  \* position of the for loop in remaining_urls (0: not in the loop)
    remaining_urls,
    succeeded_in_this_pass,
    success,
    downloaded_files,
    frag_logger,
    stats,                  \* the returned statistics (NoStats before the return)
    attempt_log,            \* "[ATTEMPT] Trying download via" log entries
    succeeded_ever,         \* URLs of the "[SUCCESS] Downloaded" log entries
    failure_reported,       \* "All browser strategies failed" was logged
    unexpected_error,       \* "Unexpected error during download loop" broke the for loop
    tagged,                 \* the paths post-processing has handed to clean_tags
    replaced,               \* the existing files a post-processing rename has replaced
    handed,                 \* the URL the last step handed to the engine: {url}, or {}
    handed_pos,             \* list position of the last engine call of this configuration
    signal_now,             \* the line the last step fed the monitor set a degradation flag
    err_str,                \* message of the FatalForbiddenError the last step raised, or ""
    monitor_total,          \* a monitor that saw every line and was never reset
    source,                 \* link discovery: what a browser backend is given
    found                   \* link discovery: what the backend has returned

vars ==
    << entry_point, urls, has_ffmpeg, files_before, files, pc, browser_i, player_client_idx,
       url_i, remaining_urls, succeeded_in_this_pass, success, downloaded_files,
       frag_logger, stats, attempt_log, succeeded_ever, failure_reported,
       unexpected_error, tagged, replaced, handed, handed_pos, signal_now, err_str,
       monitor_total, source, found >>

inputs == << entry_point, urls, has_ffmpeg, files_before >>

\* Link discovery is a separate call: a run of download_audio leaves it alone.
discovery == << source, found >>
NoSource == [kind |-> "none"]
NotRun == [ran |-> FALSE]

current_browser == browser_strategies[browser_i]
use_cookies == current_browser # NoBrowser
player_clients ==
    IF use_cookies THEN player_client_configs[player_client_idx + 1]
    ELSE AnonymousClients

\* The removal of the succeeded URLs from remaining_urls at the end of a
\* credential source: core.download does it inside the for loop over the
\* sources, music_download after that loop.
ShrinkBetweenSources(remaining, succeeded) ==
    IF entry_point = "core" THEN RemoveSucceeded(remaining, succeeded) ELSE remaining

\* Building the engine options reads config.ALLOW_SKIP_FRAGMENTS in
\* music_download; the package config defines no such name, so the read
\* raises AttributeError every time. core.download reads its settings
\* argument.
OptionsAlwaysRaise == entry_point = "cli"

\* The state download_audio is in when it reaches its for loop, for an input
\* list drawn from lists.
InitAt(lists, environments, entry_points) ==
    /\ entry_point \in entry_points
    /\ urls \in lists
    /\ \E env \in environments :
        /\ has_ffmpeg = env.ffmpeg
        /\ files_before = env.before
    /\ files = files_before
    /\ pc = "for_browser"
    /\ browser_i = 0
    /\ player_client_idx = 0
    /\ url_i = 0
    /\ remaining_urls = urls
    /\ succeeded_in_this_pass = <<>>
    /\ success = FALSE
    /\ downloaded_files = <<>>
    /\ frag_logger = NewFragmentLogger
    /\ stats = NoStats
    /\ attempt_log = <<>>
    /\ succeeded_ever = {}
    /\ failure_reported = FALSE
    /\ unexpected_error = FALSE
    /\ tagged = <<>>
    /\ replaced = {}
    /\ handed = {}
    /\ handed_pos = 0
    /\ signal_now = FALSE
    /\ err_str = ""
    /\ monitor_total = NewFragmentLogger
    /\ source = NoSource
    /\ found = NotRun

InitIn(lists, environments) == InitAt(lists, environments, {"core"})

InitWith(lists) == InitIn(lists, Environments)

Init == InitWith(UrlLists)

\* A step that hands nothing to the engine.
NoEngineCall ==
    /\ handed' = {}
    /\ signal_now' = FALSE
    /\ err_str' = ""
    /\ UNCHANGED << files, downloaded_files, succeeded_ever, monitor_total, tagged,
                    replaced >>
    /\ UNCHANGED discovery

\* for current_browser in browser_strategies: the loop ends, breaks, or
\* enters the next credential source.
SelectCredentialSource ==
    /\ pc = "for_browser"
    /\ IF \/ browser_i >= Len(browser_strategies)
          \/ StopsBeforeSource(remaining_urls, success)
       THEN /\ pc' = "finish"
            /\ UNCHANGED << browser_i, player_client_idx, succeeded_in_this_pass,
                            attempt_log >>
       ELSE /\ pc' = "while_config"
            /\ browser_i' = browser_i + 1
            /\ player_client_idx' = 0
            /\ succeeded_in_this_pass' = <<>>
            /\ attempt_log' = Append(attempt_log,
                                     BrowserName(browser_strategies[browser_i + 1]))
    /\ NoEngineCall
    /\ UNCHANGED << inputs, url_i, remaining_urls, success, frag_logger, stats,
                    failure_reported, unexpected_error, handed_pos >>

\* The top of the client-profile loop: the flags are reset, the options are
\* built and the engine object is created.
SelectClientProfile ==
    /\ pc = "while_config"
    /\ ~(WhileHolds(use_cookies, player_client_idx) /\ OptionsAlwaysRaise)
    /\ IF WhileHolds(use_cookies, player_client_idx)
       THEN /\ frag_logger' = ResetFlags(frag_logger)
            /\ pc' = "for_url"
            /\ url_i' = 1
            /\ UNCHANGED remaining_urls
       ELSE /\ remaining_urls' = ShrinkBetweenSources(remaining_urls, succeeded_in_this_pass)
            /\ pc' = "for_browser"
            /\ UNCHANGED << frag_logger, url_i >>
    /\ handed_pos' = 0
    /\ NoEngineCall
    /\ UNCHANGED << inputs, browser_i, player_client_idx, succeeded_in_this_pass,
                    success, stats, attempt_log, failure_reported, unexpected_error >>

\* Building the options raises an unexpected exception: the except Exception
\* clause of the credential-source try block logs it and breaks the for loop.
SetupError ==
    /\ pc = "while_config"
    /\ WhileHolds(use_cookies, player_client_idx)
    /\ frag_logger' = ResetFlags(frag_logger)
    /\ pc' = IF StrategyCatches("Exception") THEN "finish" ELSE "raised"
    /\ unexpected_error' = StrategyCatches("Exception")
    /\ NoEngineCall
    /\ UNCHANGED << inputs, browser_i, player_client_idx, url_i, remaining_urls,
                    succeeded_in_this_pass, success, stats, attempt_log,
                    failure_reported, handed_pos >>

\* Creating the engine object raises: the except Exception clause of the
\* client-profile loop tries the next client profile, or breaks.
EngineInitError ==
    /\ pc = "while_config"
    /\ WhileHolds(use_cookies, player_client_idx)
    /\ ~OptionsAlwaysRaise
    /\ frag_logger' = ResetFlags(frag_logger)
    /\ IF use_cookies /\ player_client_idx < Len(player_client_configs) - 1
       THEN /\ player_client_idx' = player_client_idx + 1
            /\ pc' = "while_config"
            /\ UNCHANGED remaining_urls
       ELSE /\ remaining_urls' = ShrinkBetweenSources(remaining_urls, succeeded_in_this_pass)
            /\ pc' = "for_browser"
            /\ UNCHANGED player_client_idx
    /\ NoEngineCall
    /\ UNCHANGED << inputs, browser_i, url_i, succeeded_in_this_pass, success,
                    stats, attempt_log, failure_reported, unexpected_error, handed_pos >>

\* if url in succeeded_in_this_pass: continue
SkipURL ==
    /\ pc = "for_url"
    /\ url_i \in 1..Len(remaining_urls)
    /\ Contains(succeeded_in_this_pass, remaining_urls[url_i])
    /\ url_i' = NextUrlIndex(url_i)
    /\ NoEngineCall
    /\ UNCHANGED << inputs, pc, browser_i, player_client_idx, remaining_urls,
                    succeeded_in_this_pass, success, frag_logger, stats,
                    attempt_log, failure_reported, unexpected_error, handed_pos >>

\* One URL is handed to the engine, which answers with an outcome of
\* outcomes and emits a line of lines: probe, transfer, classification of
\* the outcome, and the except clauses the outcome reaches.
AttemptURLWith(outcomes, lines) ==
    /\ pc = "for_url"
    /\ url_i \in 1..Len(remaining_urls)
    /\ ~Contains(succeeded_in_this_pass, remaining_urls[url_i])
    /\ \E outcome \in outcomes, line \in lines :
        LET url == remaining_urls[url_i]
            fl == Feed(frag_logger, line)
            c == Classify(outcome, line, fl, use_cookies, player_client_idx)
            final_path == TitleOf(url)
        IN  /\ CountersBounded(fl)
            /\ frag_logger' = fl
            /\ monitor_total' = Feed(monitor_total, line)
            /\ handed' = {url}
            /\ signal_now' = SignalsDegradation(line)
            /\ err_str' = c.err
            /\ CASE c.kind = "success" ->
                    /\ succeeded_in_this_pass' = Append(succeeded_in_this_pass, url)
                    /\ downloaded_files' = Append(downloaded_files, final_path)
                    /\ files' = files \cup {final_path}
                    /\ succeeded_ever' = succeeded_ever \cup {url}
                    /\ url_i' = NextUrlIndex(url_i)
                    /\ handed_pos' = url_i
                    /\ UNCHANGED << pc, player_client_idx, remaining_urls >>
                 [] c.kind = "skip" ->
                    /\ url_i' = NextUrlIndex(url_i)
                    /\ handed_pos' = url_i
                    /\ UNCHANGED << pc, player_client_idx, remaining_urls,
                                    succeeded_in_this_pass, downloaded_files,
                                    files, succeeded_ever >>
                 [] c.kind = "fatal" ->
                    /\ IF AdvancesProfile(c.err, use_cookies, player_client_idx)
                       THEN /\ player_client_idx' = player_client_idx + 1
                            /\ pc' = "while_config"
                            /\ UNCHANGED remaining_urls
                       ELSE IF StrategyCatches("FatalForbiddenError")
                       THEN /\ remaining_urls' =
                                  ShrinkBetweenSources(remaining_urls, succeeded_in_this_pass)
                            /\ pc' = "for_browser"
                            /\ UNCHANGED player_client_idx
                       ELSE /\ pc' = "raised"
                            /\ UNCHANGED << player_client_idx, remaining_urls >>
                    /\ url_i' = 0
                    /\ handed_pos' = 0
                    /\ UNCHANGED << succeeded_in_this_pass, downloaded_files,
                                    files, succeeded_ever >>
    /\ UNCHANGED << inputs, browser_i, success, stats, attempt_log,
                    failure_reported, unexpected_error, tagged, replaced, discovery >>

AttemptURL == AttemptURLWith(EngineOutcomes, LogLines \cup {NoLine})

\* The for loop over remaining_urls has ended without a fatal outcome.
EndPass ==
    /\ pc = "for_url"
    /\ url_i > Len(remaining_urls)
    /\ IF PassSucceeded(succeeded_in_this_pass)
       THEN /\ success' = TRUE
            /\ remaining_urls' = ShrinkBetweenSources(remaining_urls, succeeded_in_this_pass)
            /\ pc' = "for_browser"
            /\ UNCHANGED player_client_idx
       ELSE IF use_cookies /\ player_client_idx < Len(player_client_configs) - 1
       THEN /\ player_client_idx' = player_client_idx + 1
            /\ pc' = "while_config"
            /\ UNCHANGED << success, remaining_urls >>
       ELSE /\ remaining_urls' = ShrinkBetweenSources(remaining_urls, succeeded_in_this_pass)
            /\ pc' = "for_browser"
            /\ UNCHANGED << success, player_client_idx >>
    /\ url_i' = 0
    /\ handed_pos' = 0
    /\ NoEngineCall
    /\ UNCHANGED << inputs, browser_i, succeeded_in_this_pass, frag_logger,
                    stats, attempt_log, failure_reported, unexpected_error >>

\* for url in succeeded_in_this_pass, with the name unbound
FinishUnbound ==
    /\ pc' = "raised"
    /\ NoEngineCall
    /\ UNCHANGED << inputs, browser_i, player_client_idx, url_i, remaining_urls,
                    succeeded_in_this_pass, success, frag_logger, stats, attempt_log,
                    failure_reported, unexpected_error, handed_pos >>
\* The failure report, post-processing, the statistics and the return.
FinishReturns ==
    /\ \E posix \in BOOLEAN :
        /\ files' = IF RunsPostProcessing(has_ffmpeg, downloaded_files)
                    THEN PostProcess(files, downloaded_files, 0, posix)
                    ELSE files
        /\ tagged' = IF RunsPostProcessing(has_ffmpeg, downloaded_files)
                     THEN TaggedFiles(files, downloaded_files, 0, posix)
                     ELSE <<>>
        /\ replaced' = IF RunsPostProcessing(has_ffmpeg, downloaded_files)
                       THEN ReplacedFiles(files, downloaded_files, 0, posix)
                       ELSE {}
        /\ stats' = MakeStats(files_before, files', frag_logger)
    /\ failure_reported' = ~success
    /\ pc' = "done"
    /\ handed' = {}
    /\ signal_now' = FALSE
    /\ err_str' = ""
    /\ remaining_urls' =
          IF entry_point = "cli"
          THEN RemoveSucceeded(remaining_urls, succeeded_in_this_pass)
          ELSE remaining_urls
    /\ UNCHANGED << inputs, browser_i, player_client_idx, url_i,
                    succeeded_in_this_pass, success, downloaded_files,
                    frag_logger, attempt_log, succeeded_ever, unexpected_error,
                    handed_pos, monitor_total, discovery >>

\* After the loop: the failure report, post-processing, the statistics.
\* music_download removes the succeeded URLs of the last pass here, and
\* raises UnboundLocalError when no credential source was entered:
\* succeeded_in_this_pass is assigned inside the loop only.
Finish ==
    /\ pc = "finish"
    /\ IF entry_point = "cli" /\ browser_i = 0
       THEN FinishUnbound
       ELSE FinishReturns

Next ==
    \/ SelectCredentialSource
    \/ SelectClientProfile
    \/ SetupError
    \/ EngineInitError
    \/ SkipURL
    \/ AttemptURL
    \/ EndPass
    \/ Finish

Spec == Init /\ [][Next]_vars

\* download_audio runs as one sequential program: a step that can be
\* taken is taken.
FairSpec == Spec /\ WF_vars(Next)

\* ------------------------------------------------- other runs
\* Runs of either download_audio: the one of core.download and the one of
\* the CLI entry point music_download.
EntryPoints == {"core", "cli"}
EntryPointsInit == InitAt(UrlLists, Environments, EntryPoints)
EntryPointsSpec == EntryPointsInit /\ [][Next]_vars

\* Runs on a list in which one URL string occurs twice, next to another URL.
RepeatedUrlLists == {<<1, 1, 2>>, <<1, 2, 1>>, <<1, 2, 2>>}
RepeatedInit == InitWith(RepeatedUrlLists)
RepeatedSpec == RepeatedInit /\ [][Next]_vars

\* Runs in a directory in which an earlier run on the same URLs has left its
\* files: the clean title, and the junk title renamed with the suffix of its
\* list position.
EarlierRunFiles == {Plain(1), Suffixed(Plain(1), 0)}
SecondRunInit == InitIn(UrlLists, {[ffmpeg |-> TRUE, before |-> EarlierRunFiles]})
SecondRunSpec == SecondRunInit /\ [][Next]_vars

\* Runs of the second scenario: three URLs; without credentials every
\* transfer ends in "Requested format is not available"; under firefox no
\* transfer of the first client profile succeeds and every transfer of the
\* second one does. Everything else is left to the engine.
Scenario2Urls == <<1, 2, 3>>
Scenario2Outcomes ==
    IF current_browser = NoBrowser THEN {<<"proceeds", "dl_format">>}
    ELSE IF current_browser = "firefox" /\ player_client_idx = 0
    THEN EngineOutcomes \ {<<"proceeds", "ok">>}
    ELSE IF current_browser = "firefox" /\ player_client_idx = 1
    THEN {<<"proceeds", "ok">>}
    ELSE EngineOutcomes
Scenario2Lines ==
    IF current_browser = "firefox" /\ player_client_idx = 1
    THEN {line \in LogLines \cup {NoLine} : ~LineRaises(line)}
    ELSE LogLines \cup {NoLine}
Scenario2AttemptURL == AttemptURLWith(Scenario2Outcomes, Scenario2Lines)
\* The scenario is also run in a directory that holds a file of another
\* title.
Scenario2Environments ==
    Environments \cup {[ffmpeg |-> TRUE, before |-> {Suffixed(Plain(3), 1)}]}
Scenario2Init == InitIn({Scenario2Urls}, Scenario2Environments)
Scenario2Next ==
    \/ SelectCredentialSource
    \/ SelectClientProfile
    \/ SetupError
    \/ EngineInitError
    \/ SkipURL
    \/ Scenario2AttemptURL
    \/ EndPass
    \/ Finish
Scenario2Spec == Scenario2Init /\ [][Scenario2Next]_vars

\* ------------------------------------------------- link discovery: URLs
\* A URL is the sequence of its pieces: each piece is a text the backends
\* search for ("youtube.com", "/", "watch", "?", "v=", ...) or a text that
\* holds none of them (an identifier "a", "b"), so that a substring test on
\* the URL is a test for a run of pieces.
Https == <<"https:", "/", "/">>
Www == <<"www.">>

\* lit occurs in s at position p
Occurs(lit, s, p) ==
    p + Len(lit) - 1 <= Len(s) /\ SubSeq(s, p, p + Len(lit) - 1) = lit
\* lit in s
In(lit, s) == \E p \in 1..Len(s) : Occurs(lit, s, p)
FirstAt(lit, s) ==
    CHOOSE p \in 1..Len(s) : Occurs(lit, s, p) /\ \A q \in 1..(p - 1) : ~Occurs(lit, s, q)
\* s.split(lit)[0], and what follows the first lit in s
Before(lit, s) == IF In(lit, s) THEN SubSeq(s, 1, FirstAt(lit, s) - 1) ELSE s
After(lit, s) == SubSeq(s, FirstAt(lit, s) + Len(lit), Len(s))
\* s.split(lit)[1], for a s that holds lit
SplitSecond(lit, s) == Before(lit, After(lit, s))
\* s.replace(lit, "")
RECURSIVE Without(_, _)
Without(lit, s) ==
    IF In(lit, s) THEN Before(lit, s) \o Without(lit, After(lit, s)) ELSE s
\* s.strip("/")
RECURSIVE StripSlashes(_)
StripSlashes(s) ==
    IF s # <<>> /\ Head(s) = "/" THEN StripSlashes(Tail(s))
    ELSE IF s # <<>> /\ s[Len(s)] = "/" THEN StripSlashes(SubSeq(s, 1, Len(s) - 1))
    ELSE s

\* Optional[str]
None == [some |-> FALSE, id |-> <<>>]
Some(text) == [some |-> TRUE, id |-> text]
\* if vid_id
Truthy(vid_id) == vid_id.some /\ vid_id.id # <<>>

\* re.search(r"[?&]v=([^&]+)", url): the first "?" or "&" followed by "v="
\* and at least one character other than "&"; the group runs up to the next
\* "&".
VParamAt(url) ==
    {p \in 1..(Len(url) - 2) :
        url[p] \in {"?", "&"} /\ url[p + 1] = "v=" /\ url[p + 2] # "&"}
SearchV(url) ==
    IF VParamAt(url) = {} THEN None
    ELSE LET p == CHOOSE p \in VParamAt(url) : \A q \in VParamAt(url) : p <= q
         IN  Some(Before(<<"&">>, SubSeq(url, p + 2, Len(url))))

\* BrowserBackend._extract_video_id
extract_video_id(url) ==
    IF In(<<"youtube.com", "/", "watch">>, url) THEN SearchV(url)
    ELSE IF In(<<"youtu.be", "/">>, url)
    THEN Some(Before(<<"?">>, SplitSecond(<<"youtu.be", "/">>, url)))
    ELSE IF In(<<"youtube.com", "/", "shorts", "/">>, url)
    THEN Some(Before(<<"?">>, SplitSecond(<<"shorts", "/">>, url)))
    ELSE None

\* BrowserBackend._is_youtube_video
is_youtube_video(url) ==
    IF url = <<>> THEN FALSE
    ELSE IF ~In(<<"youtube.com">>, url) /\ ~In(<<"youtu.be">>, url) THEN FALSE
    ELSE IF \/ In(<<"search_query=">>, url)
            \/ In(<<"/", "results">>, url)
            \/ In(<<"accounts.google">>, url)
            \/ In(<<"google.com", "/", "settings">>, url)
    THEN FALSE
    ELSE IF StripSlashes(Without(Https, Without(Www, url))) = <<"youtube.com">> THEN FALSE
    ELSE \/ In(<<"/", "watch">>, url)
         \/ In(<<"/", "shorts", "/">>, url)
         \/ In(<<"youtu.be">>, url)

\* The URLs the checks run on: scheme, host, path, query.
Schemes == {<<>>, Https, Https \o Www}
Hosts == {<<"youtube.com">>, <<"youtu.be">>, <<"other.com">>}
Paths ==
    {<<>>, <<"/">>, <<"/", "watch">>, <<"/", "shorts", "/", "a">>,
     <<"/", "results">>, <<"/", "a">>, <<"/", "b">>}
Params ==
    {<<"v=", "a">>, <<"v=", "b">>, <<"v=">>, <<"t=">>, <<"search_query=", "a">>}
RECURSIVE JoinParams(_)
JoinParams(ps) ==
    IF ps = <<>> THEN <<>>
    ELSE IF Len(ps) = 1 THEN Head(ps)
    ELSE Head(ps) \o <<"&">> \o JoinParams(Tail(ps))
Queries ==
    {IF ps = <<>> THEN <<>> ELSE <<"?">> \o JoinParams(ps) :
        ps \in UNION {[1..n -> Params] : n \in 0..MaxParams}}
SampleUrls ==
    {sch \o h \o pa \o q : sch \in Schemes, h \in Hosts, pa \in Paths, q \in Queries}

\* The state of a run of download_audio that has not started: link discovery
\* runs before it.
DownloadIdle ==
    /\ entry_point = "core"
    /\ urls = <<>>
    /\ has_ffmpeg = FALSE
    /\ files_before = {}
    /\ files = {}
    /\ pc = "idle"
    /\ browser_i = 0
    /\ player_client_idx = 0
    /\ url_i = 0
    /\ remaining_urls = <<>>
    /\ succeeded_in_this_pass = <<>>
    /\ success = FALSE
    /\ downloaded_files = <<>>
    /\ frag_logger = NewFragmentLogger
    /\ stats = NoStats
    /\ attempt_log = <<>>
    /\ succeeded_ever = {}
    /\ failure_reported = FALSE
    /\ unexpected_error = FALSE
    /\ tagged = <<>>
    /\ replaced = {}
    /\ handed = {}
    /\ handed_pos = 0
    /\ signal_now = FALSE
    /\ err_str = ""
    /\ monitor_total = NewFragmentLogger
download ==
    << entry_point, urls, has_ffmpeg, files_before, files, pc, browser_i, player_client_idx,
       url_i, remaining_urls, succeeded_in_this_pass, success, downloaded_files,
       frag_logger, stats, attempt_log, succeeded_ever, failure_reported,
       unexpected_error, tagged, replaced, handed, handed_pos, signal_now, err_str,
       monitor_total >>

\* A backend is asked whether a URL is a video and for its identity, as the
\* discovery loops do for every URL they meet.
UrlInit ==
    /\ DownloadIdle
    /\ \E url \in SampleUrls : source = [kind |-> "url", url |-> url]
    /\ found = NotRun
CheckUrl ==
    /\ source.kind = "url"
    /\ ~found.ran
    /\ found' = [ ran |-> TRUE,
                  is_video |-> is_youtube_video(source.url),
                  vid_id |-> extract_video_id(source.url) ]
    /\ UNCHANGED << source, download >>
UrlNext == CheckUrl
UrlSpec == UrlInit /\ [][UrlNext]_vars

\* ------------------------------------------------- link discovery: Chrome
\* Most nodes of a Chrome profile: bookmark nodes below the bookmarks bar plus
\* URLs in the session file.
MaxNodes == 3

UrlWatchA == Https \o Www \o <<"youtube.com", "/", "watch", "?", "v=", "a">>
UrlShortA == Https \o <<"youtu.be", "/", "a">>
UrlWatchB == Https \o Www \o <<"youtube.com", "/", "watch", "?", "v=", "b">>
UrlSearch == Https \o Www \o <<"youtube.com", "/", "results", "?", "search_query=", "a">>
\* The URLs of bookmarks and tabs: two URLs of one video and another video.
PageUrls == {UrlWatchA, UrlShortA, UrlWatchB}

SessionGroupName == "[Active Session] Open Tabs"
\* Variant walk for which no folder name is reserved.
NothingReserved == {}
ReservedNames == {"Bookmarks bar", "Other bookmarks", "Mobile bookmarks"}

\* JSON values: an object is a record of its keys, Number(n) the JSON number
\* n, TextJson the JSON string "x"; NoData is what _safe_read_json returns for
\* a missing or unparsable file.
Number(n) == [number |-> n]
\* The number 7 where an object should be, and the number 0.
BadJson == Number(7)
ZeroJson == Number(0)
TextJson == [text |-> "x"]
NoData == [nodata |-> TRUE]
IsNumber(json) == "number" \in DOMAIN json
\* A value that is no object: it has no method get.
IsBad(json) == IsNumber(json) \/ "text" \in DOMAIN json
IsData(json) == "nodata" \notin DOMAIN json
\* The JSON object {}: it parses, and Python takes it for false.
EmptyObject == [empty |-> TRUE]
\* if json_data / if data: None, the empty object and the number 0 are false;
\* the number 7 and the string "x" are true.
JsonTruthy(json) ==
    /\ IsData(json)
    /\ "empty" \notin DOMAIN json
    /\ (IsNumber(json) => json.number # 0)

Leaf(url) == [name |-> "bookmark", url |-> url]
Folder(name, id, children) == [name |-> name, id |-> id, children |-> children]
\* Folders by name and id: a named folder, one named like the session
\* group, and a reserved container.
FolderKinds == {<<"A", "1">>, <<SessionGroupName, "1">>, <<"Other bookmarks", "1">>}

\* The bookmark trees of n nodes, and the child lists of n nodes in all.
RECURSIVE Forests(_)
Trees(n) ==
    (IF n = 1 THEN {Leaf(url) : url \in PageUrls} ELSE {})
    \cup (IF n >= 1
          THEN {Folder(k[1], k[2], f) : k \in FolderKinds, f \in Forests(n - 1)}
          ELSE {})
Forests(n) ==
    IF n = 0 THEN {<<>>}
    ELSE UNION {{<<t>> \o f : t \in Trees(k), f \in Forests(n - k)} : k \in 1..n}

\* The parsed Bookmarks file: the bookmarks bar over a child list.
BookmarksFile(children) ==
    [roots |-> << Folder("Bookmarks bar", "1", children) >>]
\* The session file: whether it can be read, and the URLs the pattern finds
\* in it, in file order.
SessionFile(matches) == [readable |-> TRUE, matches |-> matches]
UnreadableSession == [readable |-> FALSE, matches |-> <<>>]

\* Child lists with a page that is no video, a node that is no object, a
\* folder with the root id.
OddForests ==
    {<<Folder("A", "1", <<Leaf(UrlSearch)>>)>>,
     <<Folder("A", "1", <<Leaf(UrlWatchA), BadJson>>)>>,
     <<Folder("A", "1", <<BadJson, Leaf(UrlWatchA)>>)>>,
     <<BadJson>>,
     <<Folder("A", "1", <<Folder("B", "0", <<Leaf(UrlWatchA)>>)>>)>>,
     <<Folder("B", "0", <<Leaf(UrlWatchA)>>)>>}

\* The Chrome profiles of at most MaxNodes nodes, and profiles whose files
\* cannot be read or hold something else than a plain bookmark tree.
ChromeProfiles ==
    UNION {
        {[kind |-> "chrome", session |-> SessionFile(m), bookmarks |-> BookmarksFile(f)] :
            m \in [1..j -> PageUrls], f \in UNION {Forests(n) : n \in 0..(MaxNodes - j)}} :
        j \in 0..MaxNodes}
    \cup {[kind |-> "chrome", session |-> ses, bookmarks |-> bm] :
            ses \in {UnreadableSession, SessionFile(<<>>), SessionFile(<<UrlWatchA>>),
                     SessionFile(<<UrlSearch, UrlWatchB>>)},
            bm \in {NoData, BadJson, ZeroJson, TextJson}
                     \cup {BookmarksFile(f) : f \in OddForests}}

EmptyDict == [name \in {} |-> <<>>]
\* A variant that creates the group and appends nothing.
CreateGroupOnly(groups, name, url) ==
    [n \in DOMAIN groups \cup {name} |-> IF n \in DOMAIN groups THEN groups[n] ELSE <<>>]
\* A variant that puts the URL at the head of the group.
PrependToGroup(groups, name, url) ==
    [n \in DOMAIN groups \cup {name} |->
        IF n = name
        THEN <<url>> \o (IF n \in DOMAIN groups THEN groups[n] ELSE <<>>)
        ELSE groups[n]]
\* if name not in organized_groups: organized_groups[name] = []
\* organized_groups[name].append(url)
AppendToGroup(groups, name, url) ==
    [n \in DOMAIN groups \cup {name} |->
        IF n = name
        THEN (IF n \in DOMAIN groups THEN groups[n] ELSE <<>>) \o <<url>>
        ELSE groups[n]]

\* organized_groups[name] = urls
AppendAll(groups, name, group_urls) ==
    [n \in DOMAIN groups \cup {name} |-> IF n = name THEN group_urls ELSE groups[n]]

\* ChromeBrowser._get_active_session_urls: the loop over reversed(matches),
\* from match i down.
RECURSIVE ScanSession(_, _, _, _)
ScanSession(matches, i, seen_video_ids, final_urls) ==
    IF i = 0 THEN final_urls
    ELSE LET dec_url == matches[i]
             vid_id == extract_video_id(dec_url)
         IN  IF is_youtube_video(dec_url) /\ Truthy(vid_id) /\ vid_id.id \notin seen_video_ids
             THEN ScanSession(matches, i - 1, seen_video_ids \cup {vid_id.id},
                              Append(final_urls, dec_url))
             ELSE ScanSession(matches, i - 1, seen_video_ids, final_urls)
\* A variant that scans the matches in file order, from match i up.
RECURSIVE ScanInFileOrder(_, _, _, _)
ScanInFileOrder(matches, i, seen_video_ids, final_urls) ==
    IF i > Len(matches) THEN final_urls
    ELSE LET dec_url == matches[i]
             vid_id == extract_video_id(dec_url)
         IN  IF is_youtube_video(dec_url) /\ Truthy(vid_id) /\ vid_id.id \notin seen_video_ids
             THEN ScanInFileOrder(matches, i + 1, seen_video_ids \cup {vid_id.id},
                                  Append(final_urls, dec_url))
             ELSE ScanInFileOrder(matches, i + 1, seen_video_ids, final_urls)
FileOrderUrls(session) ==
    IF ~session.readable THEN <<>>
    ELSE ScanInFileOrder(session.matches, 1, {}, <<>>)
get_active_session_urls(session) ==
    IF ~session.readable THEN <<>>
    ELSE ScanSession(session.matches, Len(session.matches), {}, <<>>)

\* recurse_nodes of ChromeBrowser.extract_groups. walk is the state of the
\* walk: organized_groups, seen_bookmark_vids, and whether an exception has
\* ended it.
RECURSIVE recurse_nodes(_, _, _)
RECURSIVE recurse_children(_, _, _)
recurse_nodes(node, current_folder_name, walk) ==
    IF walk.raised THEN walk
    ELSE IF IsBad(node) THEN [walk EXCEPT !.raised = TRUE]
    ELSE IF "children" \in DOMAIN node THEN
        LET my_name == node.name
            next_group == IF node.id # "0" /\ my_name \notin ReservedNames
                          THEN my_name ELSE current_folder_name
        IN  recurse_children(node.children, next_group, walk)
    ELSE IF "url" \in DOMAIN node THEN
        LET url == node.url
            vid_id == extract_video_id(url)
        IN  IF is_youtube_video(url) /\ Truthy(vid_id) /\ vid_id.id \notin walk.seen
            THEN LET marked == [walk EXCEPT !.seen = @ \cup {vid_id.id}]
                 IN  IF current_folder_name # ""
                     THEN [marked EXCEPT
                             !.groups = AppendToGroup(@, current_folder_name, url)]
                     ELSE marked
            ELSE walk
    ELSE walk
recurse_children(children, group, walk) ==
    IF children = <<>> THEN walk
    ELSE recurse_children(Tail(children), group, recurse_nodes(Head(children), group, walk))

\* ChromeBrowser.extract_groups
ChromeExtract(profile) ==
    LET active_urls == get_active_session_urls(profile.session)
        organized_groups ==
            IF active_urls # <<>>
            THEN AppendAll(EmptyDict, SessionGroupName, active_urls) ELSE EmptyDict
        data == profile.bookmarks
        start == [groups |-> organized_groups, seen |-> {}, raised |-> FALSE]
        walk == IF ~JsonTruthy(data) THEN start
                ELSE IF IsBad(data) THEN [start EXCEPT !.raised = TRUE]
                ELSE recurse_children(data.roots, "", start)
    IN  [ran |-> TRUE, raised |-> FALSE, groups |-> walk.groups,
         active_urls |-> active_urls]

\* ------------------------------------------------ link discovery: Firefox
\* Most windows and tabs of a Firefox session, counted together.
MaxParts == 4

Group(id, title) == [id |-> id, title |-> title]
\* A tab: its group id ("" when it has none), the URLs of its history
\* entries, and the 1-based index of the entry shown.
Tab(groupId, entries, index) == [groupId |-> groupId, entries |-> entries, index |-> index]
Window(groups, tabs) == [groups |-> groups, tabs |-> tabs]

GroupLists ==
    {<<Group("g1", "A")>>, <<Group("g1", "A"), Group("g2", "B")>>,
     <<Group("g1", "A"), Group("g2", "A")>>}
TabsOf ==
    {Tab("g1", <<url>>, 1) : url \in PageUrls}
    \cup {Tab("g2", <<UrlWatchA>>, 1), Tab("", <<UrlWatchA>>, 1)}
\* Windows without groups, with a group without id or title, with tabs whose
\* history is empty, not at its first entry, or indexed outside it, with a
\* page that is no video, with a tab that is no object.
OddWindows ==
    {Window(<<>>, <<Tab("g1", <<UrlWatchA>>, 1)>>),
     Window(<<Group("", "A")>>, <<Tab("g1", <<UrlWatchA>>, 1)>>),
     Window(<<Group("g1", "")>>, <<Tab("g1", <<UrlWatchA>>, 1)>>)}
    \cup {Window(<<Group("g1", "A")>>, <<t>>) :
            t \in {Tab("g1", <<>>, 1), Tab("g1", <<UrlWatchB, UrlWatchA>>, 2),
                   Tab("g1", <<UrlWatchA>>, 0), Tab("g1", <<UrlWatchA>>, 2),
                   Tab("g1", <<UrlSearch>>, 1), BadJson}}
    \cup {Window(<<Group("g1", "A")>>, <<Tab("g1", <<UrlWatchA>>, 1), BadJson>>)}

\* The window lists of at most n windows and tabs in all.
RECURSIVE WindowLists(_)
WindowLists(n) ==
    {<<>>} \cup
    UNION {{<<Window(g, t)>> \o rest :
              g \in GroupLists, t \in [1..j -> TabsOf],
              rest \in WindowLists(n - 1 - j)} : j \in 0..(n - 1)}

\* A dict without the key "windows".
NoWindows == [other |-> TRUE]
\* What one snapshot file may give: nothing, an empty object, an object
\* without windows, the number 7, the number 0, the string "x", a window that
\* is a number, or one tab in one group.
SnapshotResults ==
    {NoData, EmptyObject, NoWindows, BadJson, ZeroJson, TextJson,
     [windows |-> <<BadJson>>],
     [windows |-> <<Window(<<Group("g1", "A")>>, <<Tab("g1", <<UrlWatchA>>, 1)>>)>>],
     [windows |-> <<Window(<<Group("g1", "B")>>, <<Tab("g1", <<UrlWatchB>>, 1)>>)>>]}
\* The contents of recovery.jsonlz4, previous.jsonlz4 and sessionstore.jsonlz4
\* as _safe_read_json returns them.
FirefoxProfiles ==
    {[kind |-> "firefox", files |-> <<[windows |-> w], NoData, NoData>>] :
        w \in WindowLists(MaxParts)}
    \cup {[kind |-> "firefox", files |-> <<[windows |-> <<w>>], NoData, NoData>>] :
            w \in OddWindows}
    \cup {[kind |-> "firefox", files |-> f] :
            f \in [1..3 -> SnapshotResults]}

\* for g in raw_groups: group_metadata[g_id] = g_title
RECURSIVE GroupMetadata(_, _)
GroupMetadata(raw_groups, group_metadata) ==
    IF raw_groups = <<>> THEN group_metadata
    ELSE LET g == Head(raw_groups)
             g_title == IF g.title # "" THEN g.title ELSE "Untitled Group"
         IN  GroupMetadata(Tail(raw_groups),
                 IF g.id # ""
                 THEN [i \in DOMAIN group_metadata \cup {g.id} |->
                          IF i = g.id THEN g_title ELSE group_metadata[i]]
                 ELSE group_metadata)

\* for tab in window.get("tabs", [])
RECURSIVE FirefoxTabs(_, _, _)
FirefoxTabs(tabs, group_metadata, walk) ==
    IF tabs = <<>> \/ walk.raised THEN walk
    ELSE LET tab == Head(tabs)
             rest == Tail(tabs)
         IN  IF IsBad(tab) THEN [walk EXCEPT !.raised = TRUE]
             ELSE IF tab.groupId = "" \/ tab.groupId \notin DOMAIN group_metadata
                  THEN FirefoxTabs(rest, group_metadata, walk)
             ELSE IF tab.entries = <<>> THEN FirefoxTabs(rest, group_metadata, walk)
             ELSE LET active_idx == tab.index - 1
                  IN  IF 0 <= active_idx /\ active_idx < Len(tab.entries)
                      THEN LET url == tab.entries[active_idx + 1]
                               vid_id == extract_video_id(url)
                           IN  IF is_youtube_video(url) /\ Truthy(vid_id)
                                  /\ vid_id.id \notin walk.seen
                               THEN FirefoxTabs(rest, group_metadata,
                                        [walk EXCEPT
                                            !.seen = @ \cup {vid_id.id},
                                            !.groups = AppendToGroup(@,
                                                group_metadata[tab.groupId], url)])
                               ELSE FirefoxTabs(rest, group_metadata, walk)
                      ELSE FirefoxTabs(rest, group_metadata, walk)

\* for window in json_data["windows"]
RECURSIVE FirefoxWindows(_, _)
FirefoxWindows(windows, walk) ==
    IF windows = <<>> \/ walk.raised THEN walk
    ELSE LET window == Head(windows)
         IN  IF IsBad(window) THEN [walk EXCEPT !.raised = TRUE]
             ELSE LET group_metadata == GroupMetadata(window.groups, EmptyDict)
                  IN  IF DOMAIN group_metadata = {}
                      THEN FirefoxWindows(Tail(windows), walk)
                      ELSE FirefoxWindows(Tail(windows),
                               FirefoxTabs(window.tabs, group_metadata, walk))

\* for f in files: json_data = self._safe_read_json(f); if json_data: break
RECURSIVE FirstData(_)
FirstData(candidates) ==
    IF candidates = <<>> THEN NoData
    ELSE IF JsonTruthy(Head(candidates)) THEN Head(candidates)
    ELSE FirstData(Tail(candidates))
\* The number of candidates the loop has read when it ends.
RECURSIVE CandidatesRead(_)
CandidatesRead(candidates) ==
    IF candidates = <<>> THEN 0
    ELSE IF JsonTruthy(Head(candidates)) THEN 1
    ELSE 1 + CandidatesRead(Tail(candidates))

\* FirefoxBrowser.extract_groups. No handler surrounds it: an exception
\* leaves the call, and no groups are returned. The test "windows" not in
\* json_data raises on a number and is true of the string "x".
FirefoxExtract(profile) ==
    LET json_data == FirstData(profile.files)
        read == CandidatesRead(profile.files)
        start == [groups |-> EmptyDict, seen |-> {}, raised |-> FALSE]
    IN  IF ~JsonTruthy(json_data)
        THEN [ran |-> TRUE, raised |-> FALSE, groups |-> EmptyDict, read |-> read]
        ELSE IF IsNumber(json_data)
             THEN [ran |-> TRUE, raised |-> TRUE, groups |-> EmptyDict, read |-> read]
        ELSE IF "windows" \notin DOMAIN json_data
             THEN [ran |-> TRUE, raised |-> FALSE, groups |-> EmptyDict, read |-> read]
        ELSE LET walk == FirefoxWindows(json_data.windows, start)
             IN  [ran |-> TRUE, raised |-> walk.raised,
                  groups |-> IF walk.raised THEN EmptyDict ELSE walk.groups,
                  read |-> read]

\* ------------------------------------------------ link discovery: the run
DiscoveryInit ==
    /\ DownloadIdle
    /\ source \in ChromeProfiles \cup FirefoxProfiles
    /\ found = NotRun

ChromeExtractGroups ==
    /\ source.kind = "chrome"
    /\ ~found.ran
    /\ found' = ChromeExtract(source)
    /\ UNCHANGED << source, download >>

FirefoxExtractGroups ==
    /\ source.kind = "firefox"
    /\ ~found.ran
    /\ found' = FirefoxExtract(source)
    /\ UNCHANGED << source, download >>

DiscoveryNext == ChromeExtractGroups \/ FirefoxExtractGroups

DiscoverySpec == DiscoveryInit /\ [][DiscoveryNext]_vars

\* ------------------------------------------------- the monitor alone
\* One call of a FragmentLogger method on a monitor in any state the
\* counters and flags can be in, with a message of any markers.
Markers == {"signature", "images", "fragment", "skipping", "not found", "forbidden"}
Monitors ==
    [ skipped : 0..MaxEvents, errors : 0..MaxEvents, warnings : 0..MaxEvents,
      signature_solving_failed : BOOLEAN, only_images_available : BOOLEAN ]
MonitorInit ==
    /\ DownloadIdle
    /\ source \in [ kind : {"monitor"}, fl : Monitors,
                    method : {"debug", "warning", "error"}, msg : SUBSET Markers ]
    /\ found = NotRun
LoggerCall ==
    /\ source.kind = "monitor"
    /\ ~found.ran
    /\ found' = [ ran |-> TRUE,
                  raised |-> LineRaises(<<source.method, source.msg>>),
                  fl |-> Feed(source.fl, <<source.method, source.msg>>) ]
    /\ UNCHANGED << source, download >>
MonitorNext == LoggerCall
MonitorSpec == MonitorInit /\ [][MonitorNext]_vars

\* ------------------------------------------ link discovery: one folder
\* Bookmark trees of the first scenario: the folder "Road Trip" with three
\* bookmarks, the second of them possibly inside a folder of its own.
RoadTripTrees ==
    {<< Folder("Road Trip", "1", << Leaf(u1), Leaf(u2), Leaf(u3) >>) >> :
        u1 \in PageUrls, u2 \in PageUrls, u3 \in PageUrls}
    \cup {<< Folder("Road Trip", "1",
                << Leaf(u1), Folder(k[1], k[2], << Leaf(u2) >>), Leaf(u3) >>) >> :
            u1 \in PageUrls, u2 \in PageUrls, u3 \in PageUrls, k \in FolderKinds}
RoadTripInit ==
    /\ DownloadIdle
    /\ source \in {[kind |-> "chrome", session |-> SessionFile(<<>>),
                    bookmarks |-> BookmarksFile(f)] : f \in RoadTripTrees}
    /\ found = NotRun
RoadTripNext == ChromeExtractGroups
RoadTripSpec == RoadTripInit /\ [][RoadTripNext]_vars

\* ------------------------------------------------- the file reader
\* A file's content is a sequence of pieces: single bytes, one piece for an
\* LZ4 block (holding the bytes it decompresses to) and one piece for the
\* UTF-8 text of a JSON document (holding the value it parses to).
Byte(c) == [byte |-> c]
Lz4Block(inner) == [lz4 |-> inner]
JsonText(doc) == [json |-> doc]
InvalidByte == Byte("0xff")
MagicPrefix == << Byte("m"), Byte("o"), Byte("z"), Byte("L"), Byte("z"), Byte("4"), Byte("0") >>
MagicHeader == MagicPrefix \o << Byte("0x00") >>

\* The documents a file may hold; the text null parses to None.
JsonDocs ==
    {NoData, EmptyObject, NoWindows, BadJson, ZeroJson, TextJson}
    \cup {[windows |-> w] : w \in WindowLists(MaxParts - 2)}
Payloads ==
    {<<>>, << InvalidByte >>, << Lz4Block(<< InvalidByte >>) >>}
    \cup {<< JsonText(d) >> : d \in JsonDocs}
    \cup {<< Lz4Block(<< JsonText(d) >>) >> : d \in JsonDocs}
Headers == {<<>>, MagicPrefix, MagicPrefix \o << Byte("X") >>, MagicHeader}
\* A path: absent, one that path.exists() cannot examine (a name longer than
\* the system allows: stat fails with an OSError that exists() passes on),
\* or a file that can or cannot be copied.
Missing == [exists |-> FALSE]
Unexaminable == [exists |-> FALSE, examinable |-> FALSE]
StatRaises(file) == "examinable" \in DOMAIN file
Files ==
    {Missing, Unexaminable}
    \cup {[exists |-> TRUE, readable |-> r, content |-> h \o b] :
             r \in BOOLEAN, h \in Headers, b \in Payloads}

Raised == [raised |-> TRUE]
Returned(value) == [raised |-> FALSE, value |-> value]
\* content.startswith(b"mozLz40")
HasPrefix(content, prefix) ==
    /\ Len(content) >= Len(prefix)
    /\ \A i \in 1..Len(prefix) :
          "byte" \in DOMAIN content[i] /\ content[i].byte = prefix[i].byte
StartsWithMagic(content) == HasPrefix(content, MagicPrefix)
\* A piece of one byte: a single byte, or the text of a one-digit number.
OneByte(piece) ==
    "byte" \in DOMAIN piece \/ ("json" \in DOMAIN piece /\ IsNumber(piece.json))
\* What is left of a longer piece without its first byte.
Truncated(piece) == [cut |-> piece]
\* content[8:] of a content that starts with the seven bytes of the prefix:
\* the prefix and one more byte are dropped, so a piece of several bytes that
\* follows the prefix directly loses its first byte.
Remainder(content) ==
    LET rest == SubSeq(content, Len(MagicPrefix) + 1, Len(content))
    IN  IF rest = <<>> THEN rest
        ELSE IF OneByte(Head(rest)) THEN Tail(rest)
        ELSE << Truncated(Head(rest)) >> \o Tail(rest)
\* lz4.block.decompress: the bytes of a block, an error for anything else.
Decompress(bytes) ==
    IF Len(bytes) = 1 /\ "lz4" \in DOMAIN bytes[1] THEN Returned(bytes[1].lz4)
    ELSE Raised
\* json.loads, of bytes or of decoded text: the value of a JSON text, an
\* error for anything else (an undecodable byte included).
JsonLoads(bytes) ==
    IF Len(bytes) = 1 /\ "json" \in DOMAIN bytes[1] THEN Returned(bytes[1].json)
    ELSE Raised
\* The branch of a plain file: return json.loads(content.decode("utf-8")),
\* except Exception: return None.
ReadPlain(content) ==
    LET parsed == JsonLoads(content)
    IN  IF parsed.raised THEN NoData ELSE parsed.value
\* BrowserBackend._safe_read_json; tmpdir tells whether a temporary file
\* can be created. path.exists() and tempfile.NamedTemporaryFile stand
\* before the try: what they raise leaves the call. Everything after them
\* is inside it.
safe_read_json(file, tmpdir) ==
    IF StatRaises(file) THEN Raised
    ELSE IF ~file.exists THEN Returned(NoData)
    ELSE IF ~tmpdir THEN Raised
    ELSE IF ~file.readable THEN Returned(NoData)
    ELSE IF StartsWithMagic(file.content)
         THEN LET decompressed == Decompress(Remainder(file.content))
              IN  IF decompressed.raised THEN Returned(NoData)
                  ELSE LET parsed == JsonLoads(decompressed.value)
                       IN  IF parsed.raised THEN Returned(NoData)
                           ELSE Returned(parsed.value)
    ELSE Returned(ReadPlain(file.content))

ReaderInit ==
    /\ DownloadIdle
    /\ source \in [kind : {"file"}, file : Files, tmpdir : BOOLEAN]
    /\ found = NotRun
SafeReadJson ==
    /\ source.kind = "file"
    /\ ~found.ran
    /\ LET result == safe_read_json(source.file, source.tmpdir)
       IN  found' = [ran |-> TRUE, raised |-> result.raised,
                     data |-> IF result.raised THEN NoData ELSE result.value]
    /\ UNCHANGED << source, download >>
ReaderNext == SafeReadJson
ReaderSpec == ReaderInit /\ [][ReaderNext]_vars

\* ------------------------------------ link discovery: the session file
\* Most "Session_*" files of a Sessions directory, and their latest
\* modification time.
MaxSessionFiles == 2

\* A file of the Sessions directory: its size is zero or not, it can be
\* opened or not, and the regular expression finds the given URLs in it.
DiskFile(empty, readable, matches) ==
    [empty |-> empty, readable |-> readable, matches |-> matches]
DiskFiles ==
    {DiskFile(TRUE, TRUE, <<>>), DiskFile(FALSE, TRUE, <<>>),
     DiskFile(FALSE, FALSE, <<>>), DiskFile(FALSE, TRUE, << UrlWatchA >>),
     DiskFile(FALSE, TRUE, << UrlWatchB >>),
     DiskFile(FALSE, TRUE, << UrlWatchA, UrlShortA >>)}
Absent == [absent |-> TRUE]
IsAbsent(file) == "absent" \in DOMAIN file
CurrentSessionName == << "Current Session", 0 >>
SessionNames == {<< "Session_", n >> : n \in 1..MaxSessionFiles}
\* The "Session_*" files of a directory: each absent, or a file with the
\* time of its last modification.
OlderSessions ==
    [SessionNames -> {Absent} \cup
        {[mtime |-> t, file |-> f] : t \in 1..MaxSessionFiles, f \in DiskFiles}]
SessionDirs ==
    {[kind |-> "sessions", dir_exists |-> FALSE, current |-> Absent,
      older |-> [n \in SessionNames |-> Absent]]}
    \cup {[kind |-> "sessions", dir_exists |-> TRUE, current |-> c, older |-> o] :
             c \in {Absent} \cup DiskFiles, o \in OlderSessions}

\* list(sessions_dir.glob("Session_*"))
SessionFilesOf(dir) == {n \in SessionNames : ~IsAbsent(dir.older[n])}
\* A variant that takes any of the files.
AnySession(dir) == SessionFilesOf(dir)
\* max(session_files, key=os.path.getmtime): a file no other is newer than;
\* among files of one time the order of the listing decides.
NewestSessions(dir) ==
    {n \in SessionFilesOf(dir) :
        \A m \in SessionFilesOf(dir) : dir.older[m].mtime <= dir.older[n].mtime}
\* not target_file.exists() or target_file.stat().st_size == 0
CurrentUnusable(dir) == IsAbsent(dir.current) \/ dir.current.empty
\* The files the scan may open: none when the function returns before.
TargetFiles(dir) ==
    IF ~dir.dir_exists THEN {}
    ELSE IF CurrentUnusable(dir) THEN NewestSessions(dir)
    ELSE {CurrentSessionName}
FileNamed(dir, name) ==
    IF name = CurrentSessionName THEN dir.current ELSE dir.older[name].file
\* open(target_file), findall and the loop; an error of open is logged.
ScanFile(file) ==
    get_active_session_urls([readable |-> file.readable, matches |-> file.matches])

SessionDirInit ==
    /\ DownloadIdle
    /\ source \in SessionDirs
    /\ found = NotRun
\* ChromeBrowser._get_active_session_urls with no file to scan
ReturnNoSession ==
    /\ source.kind = "sessions"
    /\ ~found.ran
    /\ TargetFiles(source) = {}
    /\ found' = [ran |-> TRUE, raised |-> FALSE, scanned |-> {}, active_urls |-> <<>>]
    /\ UNCHANGED << source, download >>
\* ChromeBrowser._get_active_session_urls scanning its target file
ScanTargetFile ==
    /\ source.kind = "sessions"
    /\ ~found.ran
    /\ \E target_file \in TargetFiles(source) :
          found' = [ran |-> TRUE, raised |-> FALSE, scanned |-> {target_file},
                    active_urls |-> ScanFile(FileNamed(source, target_file))]
    /\ UNCHANGED << source, download >>
SessionDirNext == ReturnNoSession \/ ScanTargetFile
SessionDirSpec == SessionDirInit /\ [][SessionDirNext]_vars

\* ------------------------------------ link discovery: the profiles
\* Latest modification time of a directory entry.
MaxTimes == 2

\* An entry of a browser's base directory: a plain file, or a directory
\* with or without the family's preferences file ("Preferences" for
\* Chrome); mtime is the time of the preferences file for Chrome and of the
\* directory for Firefox.
PlainFile == [is_dir |-> FALSE, marker |-> FALSE, mtime |-> 1]
Directories == [is_dir : {TRUE}, marker : BOOLEAN, mtime : 1..MaxTimes]
EntryNames(family) ==
    IF family = "chrome" THEN {"Default", "Profile 1", "Guest Profile"}
    ELSE {"a.default", "b.default-release", "Crash Reports"}
BaseDirs ==
    {[kind |-> "profiles", family |-> f, system |-> s, base_exists |-> FALSE,
      entries |-> [n \in EntryNames(f) |-> Absent]] :
        f \in {"chrome", "firefox"}, s \in {"Linux", "Java"}}
    \cup UNION {
        {[kind |-> "profiles", family |-> f, system |-> "Linux", base_exists |-> TRUE,
          entries |-> e] :
            e \in [EntryNames(f) -> {Absent, PlainFile} \cup Directories]} :
        f \in {"chrome", "firefox"}}

Present(base, name) == ~IsAbsent(base.entries[name])
\* base_path.glob("Profile *")
MatchesProfileGlob(name) == name \in {"Profile 1"}
\* base.glob("*.*")
MatchesDotGlob(name) == name \in {"a.default", "b.default-release"}
\* The entries get_profiles collects before sorting.
Listed(base) ==
    IF base.system # "Linux" \/ ~base.base_exists THEN {}
    ELSE IF base.family = "chrome"
    THEN {n \in DOMAIN base.entries :
            Present(base, n) /\ (n = "Default" \/ MatchesProfileGlob(n))}
    ELSE {n \in DOMAIN base.entries :
            Present(base, n) /\ MatchesDotGlob(n) /\ base.entries[n].is_dir}
\* get_pref_mtime for Chrome, os.path.getmtime for Firefox
SortKey(base, name) ==
    IF base.family = "chrome"
    THEN IF base.entries[name].marker THEN base.entries[name].mtime ELSE 0
    ELSE base.entries[name].mtime
\* sorted(profiles, key=..., reverse=True): the listed entries from the
\* latest to the earliest; entries of one time keep the order of the
\* listing, in which Chrome's "Default" comes first.
SortedProfiles(base) ==
    {p \in [1..Cardinality(Listed(base)) -> Listed(base)] :
        /\ \A i, j \in DOMAIN p : i < j => p[i] # p[j]
        /\ \A i, j \in DOMAIN p : i < j => SortKey(base, p[i]) >= SortKey(base, p[j])
        /\ \A i, j \in DOMAIN p :
              (i < j /\ p[j] = "Default") => SortKey(base, p[i]) > SortKey(base, p[j])}

ProfilesInit ==
    /\ DownloadIdle
    /\ source \in BaseDirs
    /\ found = NotRun
\* ChromeBrowser.get_profiles, FirefoxBrowser.get_profiles
GetProfiles ==
    /\ source.kind = "profiles"
    /\ ~found.ran
    /\ \E p \in SortedProfiles(source) :
          found' = [ran |-> TRUE, raised |-> FALSE, profiles |-> p]
    /\ UNCHANGED << source, download >>
ProfilesNext == GetProfiles
ProfilesSpec == ProfilesInit /\ [][ProfilesNext]_vars

\* ------------------------------------------------ the quality menu
\* A typed line is the sequence of its characters.
MaxInputs == 3
Whitespace == {" "}
TypedLines ==
    { <<>>, <<"1">>, <<"2">>, <<"3">>, <<"4">>, <<"1", "2">>, <<"s">>, <<" ", "S">>,
      <<"b">>, <<"B", " ">>, <<"q">>, <<"Q">>, <<"x">> }

\* str.strip()
RECURSIVE LStrip(_)
LStrip(line) ==
    IF line # <<>> /\ Head(line) \in Whitespace THEN LStrip(Tail(line)) ELSE line
RECURSIVE RStrip(_)
RStrip(line) ==
    IF line # <<>> /\ line[Len(line)] \in Whitespace
    THEN RStrip(SubSeq(line, 1, Len(line) - 1)) ELSE line
Strip(line) == LStrip(RStrip(line))

\* str.lower()
LowerChar(c) ==
    CASE c = "S" -> "s" [] c = "B" -> "b" [] c = "Q" -> "q" [] OTHER -> c
Lower(line) == [i \in DOMAIN line |-> LowerChar(line[i])]

\* core.ui.prompt: the line read, stripped and lower-cased.
prompt(line) == Lower(Strip(line))

\* config.QUALITY_OPTIONS
QUALITY_OPTIONS ==
    ( <<"1">> :> [codec |-> "mp3", quality |-> "320", convert |-> TRUE] ) @@
    ( <<"2">> :> [codec |-> "mp3", quality |-> "192", convert |-> TRUE] ) @@
    ( <<"3">> :> [codec |-> "None", quality |-> "None", convert |-> FALSE] )

\* Variant of the menu that hands out every profile.
NeverBlocked(selected, ffmpeg_available) == FALSE

\* if selected.convert and not ffmpeg_available
Blocked(selected, ffmpeg_available) == selected.convert /\ ~ffmpeg_available

\* What a call of ask_quality is given: whether FFmpeg is on the PATH, the
\* settings object, the lines waiting on standard input, how many lines have
\* been read, and the input call that reads next (the menu prompt, or
\* wait_enter).
QualityMenus ==
    { [kind |-> "quality", ffmpeg_available |-> f, allow_skip_fragments |-> a,
       stdin |-> lines, read |-> 0, at |-> "prompt"] :
        f \in BOOLEAN, a \in BOOLEAN,
        lines \in UNION {[1..n -> TypedLines] : n \in 0..MaxInputs} }

\* How the call has ended: "return" with a value, or an exception.
Leaves(how, value) == [ran |-> TRUE, left |-> how, value |-> value]
NoneValue == [none |-> TRUE]

QualityInit ==
    /\ DownloadIdle
    /\ source \in QualityMenus
    /\ found = NotRun

InMenu == source.kind = "quality" /\ ~found.ran
AtPrompt == InMenu /\ source.at = "prompt" /\ source.stdin # <<>>
choice == prompt(Head(source.stdin))

\* input() with standard input at its end
EndOfInput ==
    /\ InMenu
    /\ source.stdin = <<>>
    /\ found' = Leaves("EOFError", NoneValue)
    /\ UNCHANGED << source, download >>
\* if choice == "q": sys.exit()
Quit ==
    /\ AtPrompt
    /\ choice = <<"q">>
    /\ found' = Leaves("SystemExit", NoneValue)
    /\ source' = [source EXCEPT !.stdin = Tail(@), !.read = @ + 1]
    /\ UNCHANGED download
\* if choice == "b": return None
Back ==
    /\ AtPrompt
    /\ choice = <<"b">>
    /\ found' = Leaves("return", NoneValue)
    /\ source' = [source EXCEPT !.stdin = Tail(@), !.read = @ + 1]
    /\ UNCHANGED download
\* if choice == "s": toggle, continue
ToggleSkip ==
    /\ AtPrompt
    /\ choice = <<"s">>
    /\ source' = [source EXCEPT !.stdin = Tail(@), !.read = @ + 1,
                                !.allow_skip_fragments = ~@]
    /\ UNCHANGED << found, download >>
\* if choice in config.QUALITY_OPTIONS: ... return selected
SelectQuality ==
    /\ AtPrompt
    /\ choice \notin {<<"q">>, <<"b">>, <<"s">>}
    /\ choice \in DOMAIN QUALITY_OPTIONS
    /\ LET selected == QUALITY_OPTIONS[choice]
       IN  IF Blocked(selected, source.ffmpeg_available)
           THEN /\ source' = [source EXCEPT !.stdin = Tail(@), !.read = @ + 1, !.at = "wait_enter"]
                /\ UNCHANGED found
           ELSE /\ source' = [source EXCEPT !.stdin = Tail(@), !.read = @ + 1]
                /\ found' = Leaves("return", selected)
    /\ UNCHANGED download
\* wait_enter(); continue
WaitEnter ==
    /\ InMenu
    /\ source.at = "wait_enter"
    /\ source.stdin # <<>>
    /\ source' = [source EXCEPT !.stdin = Tail(@), !.read = @ + 1, !.at = "prompt"]
    /\ UNCHANGED << found, download >>
\* print(MSG_INVALID_CHOICE)
InvalidChoice ==
    /\ AtPrompt
    /\ choice \notin {<<"q">>, <<"b">>, <<"s">>}
    /\ choice \notin DOMAIN QUALITY_OPTIONS
    /\ source' = [source EXCEPT !.stdin = Tail(@), !.read = @ + 1]
    /\ UNCHANGED << found, download >>

QualityNext ==
    \/ EndOfInput \/ Quit \/ Back \/ ToggleSkip \/ SelectQuality \/ WaitEnter
    \/ InvalidChoice
QualitySpec == QualityInit /\ [][QualityNext]_vars

\* --------------------------------------------- the menu loop of main
MaxProfiles == 2
MaxGroups == 2
\* "sup2" stands for the character SUPERSCRIPT TWO: str.isdigit() holds for it,
\* int() rejects it.
AsciiDigits == {"0", "1", "2", "3"}
UnicodeDigits == AsciiDigits \cup {"sup2"}
DigitValue(c) == CASE c = "0" -> 0 [] c = "1" -> 1 [] c = "2" -> 2 [] c = "3" -> 3
MenuLines ==
    { <<>>, <<"0">>, <<"1">>, <<" ", "2">>, <<"3">>, <<"-", "1">>, <<"sup2">>,
      <<"q">>, <<"B">>, <<"p">>, <<"r">> }

\* str.isdigit()
isdigit(line) == line # <<>> /\ \A i \in DOMAIN line : line[i] \in UnicodeDigits

\* int(): an optional sign and decimal digits; anything else is a ValueError.
Unsigned(line) == IF line # <<>> /\ Head(line) \in {"-", "+"} THEN Tail(line) ELSE line
IntParses(line) ==
    Unsigned(line) # <<>> /\ \A i \in DOMAIN Unsigned(line) : Unsigned(line)[i] \in AsciiDigits
RECURSIVE Magnitude(_)
Magnitude(digits) ==
    IF digits = <<>> THEN 0
    ELSE 10 * Magnitude(SubSeq(digits, 1, Len(digits) - 1)) + DigitValue(digits[Len(digits)])
int(line) ==
    IF Head(line) = "-" THEN 0 - Magnitude(Unsigned(line)) ELSE Magnitude(Unsigned(line))

\* Variant of list indexing that knows no negative index.
FromFrontOnly(length, index) == IF index \in 0..(length - 1) THEN index + 1 ELSE 0

\* a_list[index]: the position, counted from 1, of the entry a list of the
\* given length yields; 0 stands for IndexError.
Subscript(length, index) ==
    IF index \in 0..(length - 1) THEN index + 1
    ELSE IF index \in (0 - length)..(0 - 1) THEN length + index + 1
    ELSE 0

\* browsers = [FirefoxBrowser(), ChromeBrowser()]
browsers == << "FirefoxBrowser", "ChromeBrowser" >>

\* What a run of main is given: the number of profiles get_profiles finds, the
\* number of groups with YouTube links extract_groups finds, the lines waiting
\* on standard input; and where it stands: the lines read, the input call that
\* reads next, the backend chosen (0: none) and the profile shown.
MainMenus ==
    { [kind |-> "main", profiles |-> np, groups |-> ng, stdin |-> lines, read |-> 0,
       at |-> "browser", backend |-> 0, current_profile_idx |-> 0] :
        np \in 0..MaxProfiles, ng \in 0..MaxGroups,
        lines \in UNION {[1..n -> MenuLines] : n \in 0..MaxInputs} }

MenuInit ==
    /\ DownloadIdle
    /\ source \in MainMenus
    /\ found = NotRun

InMain == source.kind = "main" /\ ~found.ran
Reads(at) == InMain /\ source.at = at /\ source.stdin # <<>>
choice_input == Lower(Strip(Head(source.stdin)))
Consumed == [source EXCEPT !.stdin = Tail(@), !.read = @ + 1]
\* The menu shown for a profile: its groups, or the hint that it has none.
ProfileMenu == IF source.groups = 0 THEN "no_groups" ELSE "group"
BackToBrowsers == [Consumed EXCEPT !.at = "browser", !.backend = 0,
                                   !.current_profile_idx = 0]

\* input() with standard input at its end
MenuEndOfInput ==
    /\ InMain
    /\ source.stdin = <<>>
    /\ found' = Leaves("EOFError", 0)
    /\ UNCHANGED << source, download >>
\* if choice == "q": sys.exit(), in each of the three menus
MenuQuit ==
    /\ \E at \in {"browser", "no_groups", "group"} : Reads(at)
    /\ choice_input = <<"q">>
    /\ found' = Leaves("SystemExit", 0)
    /\ source' = Consumed
    /\ UNCHANGED download
\* The browser menu: backend = browsers[int(choice) - 1] after choice.isdigit(),
\* then get_profiles and the first profile's menu.
SelectBrowser ==
    /\ Reads("browser")
    /\ choice_input # <<"q">>
    /\ LET selected == IF isdigit(choice_input) /\ IntParses(choice_input)
                       THEN Subscript(Len(browsers), int(choice_input) - 1) ELSE 0
       IN  source' =
             IF selected = 0 THEN Consumed
             ELSE IF source.profiles = 0
             THEN [Consumed EXCEPT !.at = "no_profiles", !.backend = selected]
             ELSE [Consumed EXCEPT !.at = ProfileMenu, !.backend = selected]
    /\ UNCHANGED << found, download >>
\* input("Press Enter to back..."); continue
NoProfilesBack ==
    /\ Reads("no_profiles")
    /\ source' = BackToBrowsers
    /\ UNCHANGED << found, download >>
\* b, p, r and anything else in the menu of a profile without groups
NoGroupsChoice ==
    /\ Reads("no_groups")
    /\ choice_input # <<"q">>
    /\ source' =
         IF choice_input = <<"b">> THEN BackToBrowsers
         ELSE IF choice_input = <<"p">>
         THEN [Consumed EXCEPT !.current_profile_idx = (@ + 1) % source.profiles]
         ELSE Consumed
    /\ UNCHANGED << found, download >>
\* b, p, r in the menu of groups
GroupMenuKey ==
    /\ Reads("group")
    /\ choice_input \in {<<"b">>, <<"p">>, <<"r">>}
    /\ source' =
         IF choice_input = <<"b">> THEN BackToBrowsers
         ELSE IF choice_input = <<"p">>
         THEN [Consumed EXCEPT !.current_profile_idx = (@ + 1) % source.profiles]
         ELSE Consumed
    /\ UNCHANGED << found, download >>
\* target_group = group_names[int(choice_input) - 1], then ask_quality(), whose
\* first read of config.ALLOW_SKIP_FRAGMENTS raises AttributeError.
SelectGroup ==
    /\ Reads("group")
    /\ choice_input \notin {<<"q">>, <<"b">>, <<"p">>, <<"r">>}
    /\ LET target_group == IF IntParses(choice_input)
                           THEN Subscript(source.groups, int(choice_input) - 1) ELSE 0
       IN  IF target_group = 0
           THEN UNCHANGED found
           ELSE found' = Leaves("AttributeError", target_group)
    /\ source' = Consumed
    /\ UNCHANGED download

MenuNext ==
    \/ MenuEndOfInput \/ MenuQuit \/ SelectBrowser \/ NoProfilesBack
    \/ NoGroupsChoice \/ GroupMenuKey \/ SelectGroup
MenuSpec == MenuInit /\ [][MenuNext]_vars

\* ------------------------------------------------- properties
\* a is b with some entries left out.
RECURSIVE IsSubsequence(_, _)
IsSubsequence(a, b) ==
    IF a = <<>> THEN TRUE
    ELSE IF b = <<>> THEN FALSE
    ELSE IF Head(a) = Head(b) THEN IsSubsequence(Tail(a), Tail(b))
    ELSE IsSubsequence(a, Tail(b))

IsPrefix(a, b) == Len(a) <= Len(b) /\ a = SubSeq(b, 1, Len(a))

LoopEnded == pc \in {"finish", "done"}
AllSourcesAttempted == Len(attempt_log) = Len(browser_strategies)

\* C1: a URL whose transfer has succeeded is never handed to the engine
\* again, under any later client profile or credential source.
C1_SucceededNeverHandedAgain ==
    [][\A url \in handed' : url \notin succeeded_ever]_vars

\* C2: once any URL has been transferred, no later credential source is
\* attempted.
C2_NoSourceAfterAnySuccess ==
    [][attempt_log' # attempt_log => succeeded_ever = {}]_vars

\* C3 as stated: whenever the strategy loop ends, the remaining-URL list is
\* empty or every credential source has been attempted.
C3_EndsEmptyOrExhausted ==
    LoopEnded => remaining_urls = <<>> \/ AllSourcesAttempted

\* C3: whenever the strategy loop ends, the remaining-URL list is empty, or
\* every credential source has been attempted, or a pass has completed with
\* at least one success, or an unexpected error while an attempt was set up
\* has broken the loop.
C3_EndsEmptyExhaustedSucceededOrBroken ==
    LoopEnded =>
        \/ remaining_urls = <<>>
        \/ AllSourcesAttempted
        \/ success /\ succeeded_ever # {}
        \/ unexpected_error

\* The loop has ended on the exhausted sources with a URL that never succeeded.
C3_Witness ==
    /\ pc = "done"
    /\ AllSourcesAttempted
    /\ ~success
    /\ ~unexpected_error
    /\ remaining_urls # <<>>
    /\ succeeded_ever # {}

\* C4: at the start of every attempt, before its first engine call, both
\* degradation flags of the monitor are false, whatever an earlier attempt
\* has set.
C4_FlagsClearAtAttemptStart ==
    pc = "for_url" /\ handed_pos = 0 => ~Degraded(frag_logger)

\* A later attempt starts after an earlier one has set a flag and the
\* monitor has counted the warning.
C4_Witness ==
    /\ pc = "for_url"
    /\ handed_pos = 0
    /\ player_client_idx >= 1
    /\ Degraded(monitor_total)
    /\ frag_logger.warnings >= 1

\* The second scenario has run its course: under firefox, the second client
\* profile has transferred all three URLs.
Scenario2Passed ==
    /\ urls = Scenario2Urls
    /\ browser_i > 0
    /\ current_browser = "firefox"
    /\ player_client_idx = 1
    /\ succeeded_in_this_pass = urls
Scenario2Files == {TitleOf(Scenario2Urls[j]) : j \in 1..Len(Scenario2Urls)}

Scenario2Names ==
    Scenario2Files
    \cup UNION {{sanitize_text(TitleOf(Scenario2Urls[j])),
                 Suffixed(sanitize_text(TitleOf(Scenario2Urls[j])), j - 1)} :
                j \in {i \in 1..Len(Scenario2Urls) :
                          sanitize_text(TitleOf(Scenario2Urls[i]))
                              # TitleOf(Scenario2Urls[i])}}

ThreeWhenNoDownloadExisted ==
    Scenario2Passed /\ pc = "done" /\ files_before \cap Scenario2Files = {}
        => stats.new_files = 3

C6_AlwaysReturnsStats ==
    /\ pc # "raised"
    /\ pc # "done" => ENABLED Next
    /\ pc = "done" =>
        /\ stats # NoStats
        /\ stats.new_files >= 0
        /\ ~success => failure_reported

\* Every credential source has been abandoned, nothing was transferred, and
\* the run has returned.
C6_Witness ==
    /\ pc = "done"
    /\ AllSourcesAttempted
    /\ urls # <<>>
    /\ remaining_urls = urls
    /\ failure_reported
    /\ stats.new_files = 0

\* C7: the total-failure report is logged only if no URL was downloaded.
C7_TotalFailureOnlyIfNothingDownloaded ==
    pc = "done" /\ failure_reported => succeeded_ever = {}

\* C8: the returned statistics are the files in the output directory after
\* the run that were not there before it, and the monitor's counts of
\* skipped fragments and of warnings over the whole run: the counters are
\* never reset.
C8_StatsAreRunTotals ==
    /\ frag_logger.skipped = monitor_total.skipped
    /\ frag_logger.warnings = monitor_total.warnings
    /\ pc = "done" =>
        stats = [ new_files |-> Cardinality(files \ files_before),
                  skipped_fragments |-> monitor_total.skipped,
                  warnings |-> monitor_total.warnings ]

\* The run has returned a warning counted in an attempt whose flags a later
\* attempt has reset.
C8_Witness ==
    /\ pc = "done"
    /\ stats.warnings >= 1
    /\ stats.new_files >= 1
    /\ Degraded(monitor_total)
    /\ ~Degraded(frag_logger)

\* C9: within one attempt configuration the entries of the remaining-URL
\* list are handed to the engine in the order of the input list, each at most
\* once: every engine call is at a later list position than the one before
\* it, on an entry that has not succeeded in this pass.
C9_InsertionOrderOncePerConfiguration ==
    /\ [](IsSubsequence(remaining_urls, urls))
    /\ [][\A url \in handed' :
            /\ pc = "for_url"
            /\ url = remaining_urls[url_i]
            /\ url_i > handed_pos
            /\ ~Contains(succeeded_in_this_pass, url)
            /\ remaining_urls' = remaining_urls \/ pc' # "for_url"]_vars

\* Under a later client profile the second list entry has been handed to the
\* engine after the first.
C9_Witness ==
    /\ pc = "for_url"
    /\ player_client_idx >= 1
    /\ handed_pos = 2
    /\ handed = {remaining_urls[2]}

SourceOrder == <<"Anonymous (No Cookies)", "firefox", "chrome">>

\* C10: the credential sources are attempted in the order no-credential,
\* firefox, chrome: a run on a non-empty list begins with the no-credential
\* source, and a later source is entered only after the attempt sequence of
\* the source before it has ended.
C10_SourceOrder ==
    /\ [](/\ IsPrefix(attempt_log, SourceOrder)
          /\ pc \in {"while_config", "for_url"} =>
                /\ attempt_log # <<>>
                /\ attempt_log[Len(attempt_log)] = BrowserName(current_browser)
          /\ urls # <<>> /\ pc # "for_browser" => attempt_log # <<>>)
    /\ [][attempt_log' # attempt_log =>
            /\ pc = "for_browser"
            /\ url_i = 0
            /\ Len(attempt_log') = Len(attempt_log) + 1]_vars

\* Chrome is being attempted, after the two sources before it.
C10_Witness ==
    /\ pc = "for_url"
    /\ attempt_log = SourceOrder
    /\ handed # {}

\* The names post-processing can leave a downloaded file under: its own, its
\* cleaned name, or the cleaned name with the positional suffix of an item.
PostProcessedNames(file_path) ==
    {file_path, sanitize_text(file_path)}
    \cup {Suffixed(sanitize_text(file_path), i) : i \in 0..Len(downloaded_files)}

EveryProducedFileProcessed ==
    \A j \in 1..Len(downloaded_files) :
        \E k \in 1..Len(tagged) :
            /\ tagged[k] \in PostProcessedNames(downloaded_files[j])
            /\ tagged[k] \in files
            /\ \/ [tagged[k] EXCEPT !.sfx = NoSuffix] = sanitize_text(downloaded_files[j])
               \/ downloaded_files[j] \in files

\* C11 as stated: in every run, post-processing has run over every file a
\* successful transfer produced when download_audio returns.
C11_PostProcessingInEveryRun ==
    pc = "done" => EveryProducedFileProcessed

\* C11: in every run in which FFmpeg is installed, post-processing has run
\* over every file a successful transfer produced when download_audio
\* returns, whichever credential source or client profile produced it; it
\* runs nowhere else, and a run without FFmpeg leaves the files as the engine
\* wrote them.
C11_PostProcessingWhenFfmpeg ==
    /\ pc # "done" => tagged = <<>>
    /\ pc = "done" /\ has_ffmpeg => EveryProducedFileProcessed
    /\ pc = "done" /\ ~has_ffmpeg =>
        /\ tagged = <<>>
        /\ files = files_before \cup {downloaded_files[j] : j \in 1..Len(downloaded_files)}

\* A run has post-processed files that different credential sources produced,
\* renaming one of them.
C11_Witness ==
    /\ pc = "done"
    /\ has_ffmpeg
    /\ Len(attempt_log) >= 2
    /\ Len(tagged) >= 2
    /\ \E k \in 1..Len(tagged) : tagged[k] \notin {downloaded_files[j] : j \in 1..Len(downloaded_files)}

\* C16: _extract_video_id is a function of the URL alone, and a URL that
\* _is_youtube_video rejects yields no identity.
C16_NoIdentityForNonVideo ==
    found.ran =>
        /\ found.vid_id = extract_video_id(source.url)
        /\ ~found.is_video => found.vid_id = None

\* The video identity a URL is filed under: none when the URL is no video.
IdentityOf(url) ==
    IF is_youtube_video(url) /\ Truthy(extract_video_id(url))
    THEN {extract_video_id(url).id} ELSE {}
\* The groups that hold a URL of the identity.
GroupsHolding(groups, id) ==
    {n \in DOMAIN groups : \E i \in DOMAIN groups[n] : id \in IdentityOf(groups[n][i])}
\* A node that is no object occurs in the child list.
RECURSIVE HasBad(_)
HasBad(children) ==
    \E i \in DOMAIN children :
        \/ IsBad(children[i])
        \/ "children" \in DOMAIN children[i] /\ HasBad(children[i].children)
\* The leaves below a named folder, in child order, each with the nearest
\* named folder around it.
RECURSIVE FolderedLeaves(_, _)
FolderedLeaves(children, folder) ==
    IF children = <<>> THEN <<>>
    ELSE LET node == Head(children)
             here == IF "children" \in DOMAIN node
                     THEN FolderedLeaves(node.children,
                              IF node.id # "0" /\ node.name \notin ReservedNames
                              THEN node.name ELSE folder)
                     ELSE IF folder # "" THEN << [folder |-> folder, url |-> node.url] >>
                     ELSE <<>>
         IN  here \o FolderedLeaves(Tail(children), folder)
\* A Chrome profile with a bookmark tree of objects only and no open tab.
PlainBookmarks ==
    /\ source.kind = "chrome"
    /\ source.session.matches = <<>>
    /\ IsData(source.bookmarks) /\ ~IsBad(source.bookmarks)
    /\ ~HasBad(source.bookmarks.roots)

\* C12: after the Chrome bookmark walk, every video identity of a leaf below
\* a named folder is in exactly one group, the group of the first such leaf
\* in child order.
C12_FirstFolderedLeafWins ==
    (found.ran /\ PlainBookmarks) =>
        LET leaves == FolderedLeaves(source.bookmarks.roots, "")
        IN  \A i \in DOMAIN leaves : \A id \in IdentityOf(leaves[i].url) :
                LET first == CHOOSE j \in DOMAIN leaves :
                                 /\ id \in IdentityOf(leaves[j].url)
                                 /\ \A k \in 1..(j - 1) : id \notin IdentityOf(leaves[k].url)
                IN  GroupsHolding(found.groups, id) = {leaves[first].folder}

\* No two URLs of the list have the same video identity.
NoIdentityTwice(group_urls) ==
    \A i, j \in DOMAIN group_urls :
        i < j => IdentityOf(group_urls[i]) \cap IdentityOf(group_urls[j]) = {}

\* C13: in the result of extract_groups, of Chrome and of Firefox, no group
\* lists two URLs with the same video identity.
C13_NoIdentityTwiceInGroup ==
    found.ran /\ source.kind \in {"chrome", "firefox"} =>
        \A n \in DOMAIN found.groups : NoIdentityTwice(found.groups[n])

\* C14: every group in the result of extract_groups, of Chrome and of
\* Firefox, lists at least one URL.
C14_NoEmptyGroup ==
    found.ran /\ source.kind \in {"chrome", "firefox"} =>
        \A n \in DOMAIN found.groups : found.groups[n] # <<>>
\* A named folder whose only bookmark is no video is left out of a result
\* that has another group; so is a Firefox group whose only tab is no video.
C14_Witness ==
    /\ found.ran
    /\ \/ /\ source.kind = "chrome"
          /\ PlainBookmarks
          /\ \E i \in DOMAIN FolderedLeaves(source.bookmarks.roots, "") :
                FolderedLeaves(source.bookmarks.roots, "")[i].folder = "A"
          /\ "A" \notin DOMAIN found.groups
       \/ /\ source.kind = "firefox"
          /\ source.files[1] =
                [windows |-> << Window(<<Group("g1", "A")>>, <<Tab("g1", <<UrlSearch>>, 1)>>) >>]
          /\ found.groups = EmptyDict

\* C15: extract_groups, of Chrome and of Firefox, never raises, whatever the
\* browser files hold.
C15_DiscoveryNeverRaises ==
    found.ran /\ source.kind \in {"chrome", "firefox"} => ~found.raised

\* The URLs of the list that no attempt has downloaded.
NotSucceeded == {urls[i] : i \in DOMAIN urls} \ succeeded_ever
\* The step after a fatal error that has abandoned the credential source: no
\* URL is handed to the engine; the next credential source is entered with
\* the first client profile and the same remaining URLs, or, after the last
\* source, the loop ends.
NextSourceOrEnd ==
    /\ handed' = {}
    /\ remaining_urls' = remaining_urls
    /\ IF browser_i < Len(browser_strategies)
       THEN /\ browser_i' = browser_i + 1
            /\ player_client_idx' = 0
            /\ pc' = "while_config"
       ELSE /\ browser_i' = browser_i
            /\ pc' = "finish"
\* A fatal error abandons the credential source: the client profile stays,
\* the loop over the sources is resumed, and every URL that has not succeeded
\* is kept for the next source.
AbandonsSource ==
    /\ pc' = "for_browser"
    /\ player_client_idx' = player_client_idx
    /\ browser_i' = browser_i
    /\ ~success'
    /\ \A u \in NotSucceeded' : Contains(remaining_urls', u)

AccessDeniedErrors == {ErrForbidden, ErrMonitorForbidden, ErrCookieAccess}

\* C17: an access-denied error of the transfer or of the monitor, or a cookie
\* store failure, abandons the credential source at every client-profile
\* index; the next step enters the next credential source, if any, with the
\* URLs that have not succeeded, and hands no URL to the engine.
C17_AccessDeniedAbandonsSource ==
    [][ /\ err_str' \in AccessDeniedErrors => AbandonsSource
        /\ err_str \in AccessDeniedErrors => NextSourceOrEnd ]_vars
\* Under the second client profile of a cookie source, after a URL has been
\* downloaded, an access-denied error has abandoned the source.
C17_Witness ==
    /\ err_str \in AccessDeniedErrors
    /\ pc = "for_browser"
    /\ use_cookies
    /\ player_client_idx = 1
    /\ succeeded_in_this_pass # <<>>
    /\ browser_i < Len(browser_strategies)

\* C18: "requested format is not available" with a degradation flag set: with
\* cookies and a client profile left, the index advances by one, the list is
\* kept, and the attempt under the new profile starts at the head of the
\* list and hands over the first URL that has not succeeded; on the last
\* profile or without cookies the credential source is abandoned.
C18_DegradedFormatErrorAdvances ==
    [][ /\ err_str' = ErrFormatTryNext =>
            /\ Degraded(frag_logger')
            /\ use_cookies /\ player_client_idx < Len(player_client_configs) - 1
            /\ player_client_idx' = player_client_idx + 1
            /\ browser_i' = browser_i
            /\ remaining_urls' = remaining_urls
            /\ pc' = "while_config"
        /\ err_str = ErrFormatTryNext =>
            /\ handed' = {}
            /\ browser_i' = browser_i
            /\ pc' = "for_url" =>
                /\ url_i' = 1
                /\ player_client_idx' = player_client_idx
                /\ remaining_urls' = remaining_urls
        /\ (pc = "for_url" /\ handed_pos = 0 /\ handed' # {}) =>
            \E i \in 1..Len(remaining_urls) :
                /\ handed' = {remaining_urls[i]}
                /\ \A k \in 1..(i - 1) : Contains(succeeded_in_this_pass, remaining_urls[k])
        /\ err_str' = ErrFormatSignature =>
            /\ Degraded(frag_logger')
            /\ ~(use_cookies /\ player_client_idx < Len(player_client_configs) - 1)
            /\ AbandonsSource
        /\ err_str = ErrFormatSignature => NextSourceOrEnd ]_vars
\* The format error with a flag set has advanced a cookie source to its
\* second client profile, with a download in the pass before it.
C18_Witness ==
    /\ err_str = ErrFormatTryNext
    /\ pc = "while_config"
    /\ player_client_idx = 1
    /\ succeeded_in_this_pass # <<>>

\* C19: "requested format is not available" with neither degradation flag
\* set abandons the credential source at every client-profile index: no
\* further client profile and no further URL is tried under it.
C19_PlainFormatErrorAbandonsSource ==
    [][ /\ err_str' = ErrFormatSoftBan => ~Degraded(frag_logger') /\ AbandonsSource
        /\ err_str = ErrFormatSoftBan => NextSourceOrEnd ]_vars
\* The format error without a flag has abandoned a cookie source that had
\* client profiles left.
C19_Witness ==
    /\ err_str = ErrFormatSoftBan
    /\ pc = "for_browser"
    /\ use_cookies
    /\ player_client_idx < Len(player_client_configs) - 1

\* C20: a probe that finds formats but none with audio or video, with neither
\* degradation flag set, abandons the credential source without advancing
\* to another client profile.
C20_RestrictedProbeAbandonsSource ==
    [][ err_str' = ErrNoFormatsRestricted => ~Degraded(frag_logger') /\ AbandonsSource ]_vars

\* The step has handed a URL to the engine and ended in neither a download
\* nor a fatal error: the transfer failed for another reason, or the output
\* file was locked.
SkippedOnly ==
    /\ handed' # {}
    /\ err_str' = ""
    /\ succeeded_in_this_pass' = succeeded_in_this_pass

\* C21: a transfer error that is not fatal, and a locked output file, skip
\* only the current URL: the loop moves to the next list entry under the same
\* credential source and client profile, the succeeded URLs and the list are
\* unchanged, and the next URL handed to the engine is that next entry.
C21_OtherErrorsSkipOneUrl ==
    [][ /\ SkippedOnly =>
            /\ pc' = "for_url"
            /\ url_i' = url_i + 1
            /\ handed' = {remaining_urls[url_i]}
            /\ browser_i' = browser_i
            /\ player_client_idx' = player_client_idx
            /\ remaining_urls' = remaining_urls
            /\ succeeded_ever' = succeeded_ever
            /\ downloaded_files' = downloaded_files
        /\ (pc = "for_url" /\ url_i \in 1..Len(remaining_urls) /\ handed' # {}) =>
            /\ handed' = {remaining_urls[url_i]}
            /\ browser_i' = browser_i
            /\ pc' = "for_url" => player_client_idx' = player_client_idx ]_vars
\* Under the second client profile of a cookie source the first of two URLs
\* has been skipped and the second is next.
C21_Witness ==
    /\ pc = "for_url"
    /\ handed # {}
    /\ err_str = ""
    /\ succeeded_in_this_pass = <<>>
    /\ use_cookies
    /\ player_client_idx = 1
    /\ handed_pos = 1
    /\ url_i = 2
    /\ Len(remaining_urls) = 2

\* C22: within one credential source, once a URL has succeeded, no further
\* client profile is tried: the client-profile index no longer changes while
\* the source is the same.
C22_NoProfileAfterSuccess ==
    [][ (succeeded_in_this_pass # <<>> /\ browser_i' = browser_i) =>
            player_client_idx' = player_client_idx ]_vars

\* The for loop over the URLs has ended without a download and without a
\* fatal error.
PassEndedEmpty ==
    /\ pc = "for_url"
    /\ url_i > Len(remaining_urls)
    /\ succeeded_in_this_pass = <<>>

\* C23: under a cookie source, a pass that ends without a download and
\* without a fatal error is followed by the next client profile, until the
\* last of the three, after which the source ends; a client profile that is
\* due is entered, not passed over. Under the no-credentials source the
\* client-profile loop is entered once, with the fixed profile, and never
\* again.
C23_NextProfileAfterEmptyPass ==
    [][ /\ (PassEndedEmpty /\ use_cookies) =>
            IF player_client_idx < Len(player_client_configs) - 1
            THEN /\ player_client_idx' = player_client_idx + 1
                 /\ pc' = "while_config"
                 /\ browser_i' = browser_i
                 /\ remaining_urls' = remaining_urls
            ELSE /\ player_client_idx' = player_client_idx
                 /\ pc' = "for_browser"
        /\ (pc = "while_config" /\ use_cookies
              /\ player_client_idx < Len(player_client_configs) - 1) =>
            pc' # "for_browser"
        /\ (pc = "while_config" /\ pc' = "for_url") =>
            /\ player_client_idx' = player_client_idx
            /\ player_client_idx < Len(player_client_configs)
            /\ url_i' = 1
        /\ (browser_i > 0 /\ ~use_cookies /\ browser_i' = browser_i) =>
            /\ player_client_idx' = 0
            /\ player_clients' = AnonymousClients
            /\ pc # "while_config" => pc' # "while_config" ]_vars
\* A cookie source has ended its pass under the third client profile without
\* a download, and no degradation was ever seen by the monitor.
C23_Witness ==
    /\ browser_i > 0
    /\ use_cookies
    /\ PassEndedEmpty
    /\ remaining_urls # <<>>
    /\ player_client_idx = Len(player_client_configs) - 1
    /\ ~Degraded(monitor_total)

\* C24: FragmentLogger.error on a message with an access-denied marker
\* raises and leaves the three counters and both flags as they were; on any
\* other message it raises nothing and adds exactly one to the error counter.
C24_ErrorRaisesBeforeCounting ==
    (found.ran /\ source.kind = "monitor" /\ source.method = "error") =>
        IF "forbidden" \in source.msg
        THEN found.raised /\ found.fl = source.fl
        ELSE /\ ~found.raised
             /\ found.fl.errors = source.fl.errors + 1
             /\ found.fl.warnings = source.fl.warnings
             /\ found.fl.signature_solving_failed = source.fl.signature_solving_failed
             /\ found.fl.only_images_available = source.fl.only_images_available
\* An access-denied error message that also reports a missing fragment has
\* reached a monitor with counts and a flag set.
C24_Witness ==
    /\ found.ran
    /\ source.kind = "monitor"
    /\ source.method = "error"
    /\ source.msg = {"forbidden", "fragment", "not found"}
    /\ source.fl.errors = 1
    /\ source.fl.skipped = 1
    /\ source.fl.signature_solving_failed
    /\ found.raised

\* C25: a post-processing rename never replaces an existing file: every file
\* of the output directory is still there, as it was, when download_audio
\* returns.
C25_RenameReplacesNothing ==
    pc = "done" => replaced = {} /\ files_before \subseteq files

\* The leaves of a child list in depth-first child order, each with the
\* folders around it, outermost first.
RECURSIVE LeavesWithAncestors(_, _)
LeavesWithAncestors(children, ancestors) ==
    IF children = <<>> THEN <<>>
    ELSE LET node == Head(children)
             here == IF "children" \in DOMAIN node
                     THEN LeavesWithAncestors(node.children,
                              Append(ancestors, [name |-> node.name, id |-> node.id]))
                     ELSE << [url |-> node.url, ancestors |-> ancestors] >>
         IN  here \o LeavesWithAncestors(Tail(children), ancestors)
\* A folder that names a group: neither the root node nor a container.
NamesGroup(folder) ==
    /\ folder.id # "0"
    /\ folder.name \notin {"Bookmarks bar", "Other bookmarks", "Mobile bookmarks"}
\* The name of the innermost folder that names a group; "" when there is none.
NearestNamed(ancestors) ==
    IF \E k \in DOMAIN ancestors : NamesGroup(ancestors[k])
    THEN ancestors[CHOOSE k \in DOMAIN ancestors :
                      /\ NamesGroup(ancestors[k])
                      /\ \A m \in (k + 1)..Len(ancestors) : ~NamesGroup(ancestors[m])].name
    ELSE ""
\* The positions of the leaves that are the first of their video identity
\* in the walk.
FirstOfIdentity(leaves) ==
    {i \in DOMAIN leaves :
        /\ IdentityOf(leaves[i].url) # {}
        /\ \A k \in 1..(i - 1) :
              IdentityOf(leaves[k].url) \cap IdentityOf(leaves[i].url) = {}}

\* C26: in the Chrome bookmark walk a video leaf, the first of its identity,
\* is listed in the group of the innermost folder around it that is neither
\* the root node nor a reserved container, and in no other group; a video
\* leaf with no such folder around it is listed in no group.
C26_NearestNamedFolder ==
    (found.ran /\ PlainBookmarks) =>
        LET leaves == LeavesWithAncestors(source.bookmarks.roots, <<>>)
        IN  \A i \in FirstOfIdentity(leaves) :
                LET folder == NearestNamed(leaves[i].ancestors)
                IN  IF folder # ""
                    THEN /\ folder \in DOMAIN found.groups
                         /\ \E k \in DOMAIN found.groups[folder] :
                               found.groups[folder][k] = leaves[i].url
                         /\ \A id \in IdentityOf(leaves[i].url) :
                               GroupsHolding(found.groups, id) = {folder}
                    ELSE \A n \in DOMAIN found.groups :
                            \A k \in DOMAIN found.groups[n] :
                                found.groups[n][k] # leaves[i].url
\* A video below a reserved container inside a named folder is listed under
\* the named folder.
C26_Witness ==
    /\ found.ran
    /\ PlainBookmarks
    /\ source.bookmarks = BookmarksFile(
            << Folder("A", "1", << Folder("Other bookmarks", "1", << Leaf(UrlWatchA) >>) >>) >>)
    /\ found.groups = AppendToGroup(EmptyDict, "A", UrlWatchA)

\* The URLs a group should list: those of the leaves that are the first of
\* their identity and have the group's folder as innermost named folder, in
\* depth-first child order.
ExpectedGroup(leaves, name) ==
    LET numbered == [i \in DOMAIN leaves |-> [i |-> i, leaf |-> leaves[i]]]
        kept == SelectSeq(numbered,
                    LAMBDA e : /\ e.i \in FirstOfIdentity(leaves)
                               /\ NearestNamed(e.leaf.ancestors) = name)
    IN  [k \in DOMAIN kept |-> kept[k].leaf.url]
\* The names of the groups the leaves are filed under.
GroupNames(leaves) ==
    {NearestNamed(leaves[i].ancestors) : i \in DOMAIN leaves} \ {""}

\* C27: each bookmark group lists its URLs in depth-first child order of
\* their first occurrences, later URLs of the same video being dropped; the
\* folder "Road Trip" with url1, url2 and url1 again yields "Road Trip" with
\* url1, url2 and nothing else.
C27_GroupsInWalkOrder ==
    (found.ran /\ PlainBookmarks) =>
        LET leaves == LeavesWithAncestors(source.bookmarks.roots, <<>>)
        IN  /\ \A n \in GroupNames(leaves) \cup DOMAIN found.groups :
                IF ExpectedGroup(leaves, n) = <<>>
                THEN n \notin DOMAIN found.groups
                ELSE n \in DOMAIN found.groups
                     /\ found.groups[n] = ExpectedGroup(leaves, n)
            /\ source.bookmarks.roots[1].children =
                 << Folder("Road Trip", "1",
                       << Leaf(UrlWatchA), Leaf(UrlWatchB), Leaf(UrlWatchA) >>) >>
               => found.groups = AppendToGroup(
                                    AppendToGroup(EmptyDict, "Road Trip", UrlWatchA),
                                    "Road Trip", UrlWatchB)
\* The folder "Road Trip" with url1, url2 and url1 again has been walked.
C27_Witness ==
    /\ found.ran
    /\ source.kind = "chrome"
    /\ source.bookmarks = BookmarksFile(
            << Folder("Road Trip", "1",
                  << Leaf(UrlWatchA), Leaf(UrlWatchB), Leaf(UrlWatchA) >>) >>)
    /\ DOMAIN found.groups = {"Road Trip"}
    /\ found.groups["Road Trip"] = << UrlWatchA, UrlWatchB >>

\* A test of all eight bytes of the header.
StartsWithHeader(content) == HasPrefix(content, MagicHeader)
\* The content is the 7-byte prefix, one further byte and an LZ4 block of
\* the JSON text of d.
HoldsCompressed(content, d) ==
    /\ StartsWithMagic(content)
    /\ Len(content) = 9
    /\ "lz4" \in DOMAIN content[9]
    /\ Len(content[9].lz4) = 1
    /\ "json" \in DOMAIN content[9].lz4[1]
    /\ content[9].lz4[1].json = d
\* The content is the JSON text of d and nothing else.
HoldsPlain(content, d) ==
    /\ Len(content) = 1
    /\ "json" \in DOMAIN content[1]
    /\ content[1].json = d
\* The call is left by an exception: the path cannot be examined, or the
\* file exists and no temporary file can be created.
FailsBeforeTry(file, tmpdir) == StatRaises(file) \/ (file.exists /\ ~tmpdir)
\* The documents a file yields: those of a file that exists and can be copied.
DocsOf(file) ==
    {d \in JsonDocs :
        /\ file.exists
        /\ file.readable
        /\ HoldsCompressed(file.content, d) \/ HoldsPlain(file.content, d)}

\* C29 as stated: _safe_read_json returns data only for a file whose 8-byte
\* magic header matches and whose remainder decompresses and parses as JSON;
\* in every other case it returns None, and it does not raise.
C29_DataOnlyBehindMagicHeader ==
    (found.ran /\ source.kind = "file") =>
        /\ ~found.raised
        /\ IsData(found.data) =>
              /\ source.file.exists
              /\ StartsWithHeader(source.file.content)
              /\ DocsOf(source.file) # {}

\* What the code does instead: it raises exactly when the path cannot be
\* examined or, for an existing file, no temporary file can be created;
\* otherwise it returns the parsed document of a file that can be copied and
\* either begins with the seven bytes mozLz40 and holds, after its eighth
\* byte, an LZ4 block of a JSON text, or lacks that prefix and is a JSON
\* text as a whole, and None in every other case.
ReadsCompressedOrPlainJson ==
    (found.ran /\ source.kind = "file") =>
        /\ found.raised <=> FailsBeforeTry(source.file, source.tmpdir)
        /\ ~found.raised =>
              IF DocsOf(source.file) = {} THEN found.data = NoData
              ELSE found.data \in DocsOf(source.file)

\* The candidates that are present and parse.
ParsedCandidates(candidates) == {k \in DOMAIN candidates : IsData(candidates[k])}
FirstParsed(candidates) ==
    CHOOSE k \in ParsedCandidates(candidates) :
        \A j \in ParsedCandidates(candidates) : k <= j

\* C28: Firefox extract_groups reads the candidate files in the order
\* recovery, previous, sessionstore and uses the first one that parses: it
\* reads no later candidate, skips only candidates that are missing or do
\* not parse, and returns what that candidate alone gives.
C28_FirstParsedCandidateWins ==
    (found.ran /\ source.kind = "firefox") =>
        IF ParsedCandidates(source.files) = {}
        THEN found.read = Len(source.files) /\ found.groups = EmptyDict
        ELSE LET k == FirstParsed(source.files)
                 alone == FirefoxExtract([kind |-> "firefox",
                                          files |-> << source.files[k] >>])
             IN  /\ found.read = k
                 /\ found.groups = alone.groups
                 /\ found.raised = alone.raised
\* C28 for snapshots none of which parses to a value Python takes for false.
C28_FirstNonEmptyCandidateWins ==
    (found.ran /\ source.kind = "firefox"
        /\ \A k \in DOMAIN source.files :
              IsData(source.files[k]) => JsonTruthy(source.files[k])) =>
        C28_FirstParsedCandidateWins

\* The matches that are the last of their video identity in the file.
LastOccurrences(matches) ==
    {i \in DOMAIN matches :
        /\ IdentityOf(matches[i]) # {}
        /\ \A j \in DOMAIN matches :
              j > i => IdentityOf(matches[j]) # IdentityOf(matches[i])}

\* C30: Chrome _get_active_session_urls returns one URL for each video
\* identity found in the session file, the URL of the identity's last
\* occurrence in the file, and lists them from the last occurrence in the
\* file to the first.
C30_LastOccurrencesLatestFirst ==
    (found.ran /\ source.kind = "chrome" /\ source.session.readable) =>
        LET matches == source.session.matches
            last == LastOccurrences(matches)
        IN  /\ Len(found.active_urls) = Cardinality(last)
            /\ \A k \in DOMAIN found.active_urls :
                  \E i \in last :
                      /\ found.active_urls[k] = matches[i]
                      /\ Cardinality({j \in last : j > i}) = k - 1

\* A session file with an identity written twice and another one between has
\* been scanned: the later URL of the first identity comes first, the
\* earlier one is dropped.
C30_Witness ==
    /\ found.ran
    /\ source.kind = "chrome"
    /\ source.session.matches = << UrlWatchA, UrlWatchB, UrlShortA >>
    /\ found.active_urls = << UrlShortA, UrlWatchB >>

\* C31: Chrome _get_active_session_urls scans "Current Session" when that
\* file exists and is not empty; when it is absent or of length zero it
\* scans a "Session_*" file that no other is newer than; when there is no
\* such file either, or no Sessions directory, it returns an empty list.
C31_CurrentThenNewestSession ==
    (found.ran /\ source.kind = "sessions") =>
        IF source.dir_exists /\ ~IsAbsent(source.current) /\ ~source.current.empty
        THEN /\ found.scanned = {CurrentSessionName}
             /\ found.active_urls = ScanFile(source.current)
        ELSE IF source.dir_exists /\ \E n \in SessionNames : ~IsAbsent(source.older[n])
        THEN \E n \in SessionNames :
                /\ ~IsAbsent(source.older[n])
                /\ \A m \in SessionNames :
                      ~IsAbsent(source.older[m]) =>
                          source.older[m].mtime <= source.older[n].mtime
                /\ found.scanned = {n}
                /\ found.active_urls = ScanFile(source.older[n].file)
        ELSE found.scanned = {} /\ found.active_urls = <<>>

\* "Current Session" has length zero, two "Session_*" files of different
\* times exist, and the URLs of the newer one have been returned.
C31_Witness ==
    /\ found.ran
    /\ source.kind = "sessions"
    /\ source.dir_exists
    /\ ~IsAbsent(source.current) /\ source.current.empty
    /\ \A n \in SessionNames : ~IsAbsent(source.older[n])
    /\ \E n, m \in SessionNames :
          /\ source.older[m].mtime < source.older[n].mtime
          /\ source.older[m].file.matches = << UrlWatchA >>
          /\ found.scanned = {n}
    /\ found.active_urls = << UrlWatchB >>

\* C32: get_profiles returns an entry of the base directory only if it is
\* a directory that holds the family's preferences file.
C32_OnlyProfilesWithMarker ==
    (found.ran /\ source.kind = "profiles") =>
        \A i \in DOMAIN found.profiles :
            /\ source.entries[found.profiles[i]].is_dir
            /\ source.entries[found.profiles[i]].marker

\* The run has returned or has left download_audio with an exception.
Returned_or_Raised == pc \in {"done", "raised"}
\* The configuration (credential source, client profile) of the next state
\* comes after the current one.
LaterConfiguration ==
    \/ browser_i' = browser_i + 1 /\ player_client_idx' = 0
    \/ browser_i' = browser_i /\ player_client_idx' = player_client_idx + 1

\* C33: for every sequence of engine outcomes download_audio terminates.
\* The client-profile index stays within 0..2, is 0 without credentials,
\* and within a credential source only ever grows by exactly 1; every
\* arrival at the head of the client-profile loop brings a later
\* configuration, so at most 1 + 3 + 3 = 7 configurations are attempted;
\* a URL is handed to the engine only inside a configuration and at a list
\* position after the previous one of that configuration.
C33_TerminatesWithinSevenConfigurations ==
    /\ [](/\ player_client_idx \in 0..(Len(player_client_configs) - 1)
          /\ browser_i \in 0..Len(browser_strategies)
          /\ browser_i <= 1 => player_client_idx = 0)
    /\ [][/\ browser_i' = browser_i =>
               player_client_idx' \in {player_client_idx, player_client_idx + 1}
          /\ pc' = "while_config" => LaterConfiguration
          /\ handed' # {} =>
               /\ pc = "for_url"
               /\ browser_i' = browser_i
               /\ url_i \in 1..Len(remaining_urls)
               /\ url_i > handed_pos]_vars
    /\ <>Returned_or_Raised

\* The third client profile of the third credential source, the seventh
\* configuration, has been handed a URL.
C33_Witness ==
    /\ browser_i = Len(browser_strategies)
    /\ player_client_idx = Len(player_client_configs) - 1
    /\ handed # {}
    /\ Len(attempt_log) = Len(browser_strategies)

\* C34: for any input list, one with a repeated URL string included, each
\* distinct URL string is transferred successfully at most once in a run:
\* a step that records a transfer records one of a URL without an earlier
\* "[SUCCESS] Downloaded" entry.
C34_TransferredAtMostOnce ==
    [][Len(downloaded_files') > Len(downloaded_files) =>
          \A url \in handed' : url \notin succeeded_ever]_vars

\* A step that ends a credential source and goes back to the for loop over
\* the sources.
EndsSource == pc # "for_browser" /\ pc' = "for_browser"

\* C35: the download_audio of the CLI entry point behaves as the one of
\* core.download: every configuration it enters can go on to hand the
\* URLs to the engine; at the end of every credential source the URLs that
\* succeeded in it leave remaining_urls, so that no URL with a
\* "[SUCCESS] Downloaded" entry is handed to the engine under a later
\* source; and a run on an empty list returns.
C35_EntryPointsEquivalent ==
    /\ [](pc = "while_config" /\ WhileHolds(use_cookies, player_client_idx) =>
            ENABLED SelectClientProfile)
    /\ [][/\ EndsSource =>
               remaining_urls' = RemoveSucceeded(remaining_urls, succeeded_in_this_pass)
          /\ \A url \in handed' : url \notin succeeded_ever]_vars
    /\ [](urls = <<>> => pc # "raised")

\* C36 (as stated): a URL's format-unavailable outcome is classified as
\* degradation-correlated only if the signature-solving or images-only signal
\* was observed during that same URL's attempt.
C36_SignalDuringSameUrl ==
    [][HasSignatureSolvingFailed(err_str') => signal_now']_vars

\* C36 (amended): a URL's format-unavailable outcome is classified as
\* degradation-correlated exactly when a signature-solving or images-only
\* signal has been observed since the current (credential source, client
\* profile) configuration began, during this URL's attempt or an earlier
\* URL's; a signal of an earlier configuration does not count.
C36_SignalDuringSameConfiguration ==
    /\ [](pc = "for_url" /\ handed_pos = 0 => ~Degraded(frag_logger))
    /\ [][ /\ HasSignatureSolvingFailed(err_str') =>
                /\ pc = "for_url"
                /\ signal_now' \/ (handed_pos > 0 /\ Degraded(frag_logger))
           /\ err_str' \in {ErrFormatSoftBan, ErrNoFormatsRestricted} =>
                /\ ~signal_now'
                /\ ~Degraded(frag_logger)
         ]_vars

\* A later URL of a configuration has failed with a degradation-correlated
\* message although its own attempt saw no signal: the signal came while an
\* earlier URL of the configuration was processed.
C36_Witness ==
    /\ HasSignatureSolvingFailed(err_str)
    /\ ~signal_now
    /\ handed # {}
    /\ Degraded(monitor_total)

\* The quality profiles of the fixed catalog.
Catalog == {QUALITY_OPTIONS[key] : key \in DOMAIN QUALITY_OPTIONS}
QualityReturned == source.kind = "quality" /\ found.ran /\ found.left = "return"

\* C37: ask_quality never returns a quality profile that requires conversion
\* when FFmpeg is unavailable: whatever is typed, it returns either None, and
\* that only on the input b, or a profile of the fixed catalog with convert
\* false or FFmpeg available; each input s flips settings.allow_skip_fragments
\* exactly once and the menu stays open, and nothing else changes the setting.
C37_NoConversionWithoutFfmpeg ==
    /\ [](QualityReturned =>
            \/ found.value = NoneValue
            \/ /\ found.value \in Catalog
               /\ ~found.value.convert \/ source.ffmpeg_available)
    /\ [][ source.kind = "quality" =>
            /\ source'.ffmpeg_available = source.ffmpeg_available
            /\ (found'.ran /\ ~found.ran /\ found'.left = "return"
                    /\ found'.value = NoneValue) =>
                  AtPrompt /\ choice = <<"b">>
            /\ (AtPrompt /\ choice = <<"b">>) =>
                  found' = Leaves("return", NoneValue)
            /\ (AtPrompt /\ choice = <<"s">>) =>
                  /\ source'.allow_skip_fragments = ~source.allow_skip_fragments
                  /\ ~found'.ran
                  /\ source'.at = "prompt"
            /\ ~(AtPrompt /\ choice = <<"s">>) =>
                  source'.allow_skip_fragments = source.allow_skip_fragments
         ]_vars

\* A profile that needs conversion has been chosen without FFmpeg, after an
\* earlier input: the menu has returned nothing and waits for Enter.
C37_Witness ==
    /\ InMenu
    /\ source.at = "wait_enter"
    /\ ~source.ffmpeg_available
    /\ source.read >= 2

\* The typed input is an integer between 1 and the number of listed entries.
ListedNumber(entries) == IntParses(choice_input) /\ int(choice_input) \in 1..entries
BrowserSelected == source.at = "browser" /\ source'.backend # 0
GroupSelected == source.at = "group" /\ found'.ran /\ found'.value # 0

\* C38: in the menu loop of main a browser or a group is selected only when
\* the typed input is an integer between 1 and the number of listed entries,
\* and then it is the entry of that number; every other input, 0 included,
\* shows the menu again with nothing selected.
C38_OnlyListedNumbersSelect ==
    [][ source.kind = "main" =>
          /\ BrowserSelected =>
                ListedNumber(Len(browsers)) /\ source'.backend = int(choice_input)
          /\ GroupSelected =>
                ListedNumber(source.groups) /\ found'.value = int(choice_input)
      ]_vars

====
